---- MODULE Spec2Model ----
(***************************************************************************)
(* A model of the stream-position and event-topology storage of the sync   *)
(* API, the account-data consumer, the roomserver's RoomUpdater and invite *)
(* table, the key-changes and one-time keys tables of the user API, the    *)
(* send-to-device path and the full-text re-index run.                     *)
(*                                                                         *)
(* Each subsystem has its own next-state relation and specification        *)
(* (SpecStream, SpecTopology, SpecTopologyPosition, SpecConsumer,          *)
(* SpecKeyChange, SpecConsumers, SpecUpdater, SpecUpdaterMethods,          *)
(* SpecEvents, SpecSnapshot, SpecTyping, SpecTypingSplit, SpecInvites,     *)
(* SpecKeyChangesTable, SpecClient, SpecProducer, SpecOneTimeKeys,         *)
(* SpecReIndex, SpecReIndexFair); they share one initial state, and a      *)
(* subsystem leaves the other subsystems' variables unchanged.             *)
(***************************************************************************)
EXTENDS Integers, Sequences, FiniteSets, TLC

(***************************************************************************)
(* Bounds of the model.                                                    *)
(***************************************************************************)
\* number of advance calls recorded per run of the stream-ID table
MaxCalls == 4
\* number of transactions that can be open on the stream-ID table at once
MaxTxns == 2
\* stream positions an InsertEventInTopology caller can pass: 1..MaxStreamPos
MaxStreamPos == 2
\* LIMIT values a SelectEventIDsInRange caller can pass: 1 and MaxLimit
MaxLimit == 3
\* number of messages published to the client-data topic
MaxMsgs == 2
\* event NIDs are 1..MaxEventNID, state snapshot NIDs 1..MaxSnapshotNID; 0 is
\* "none". A SetLatestEvents caller passes 0 or the highest NID.
MaxEventNID == 1
MaxSnapshotNID == 1
\* length of the state block NID list an InsertState caller can pass
MaxBlockLen == 3
\* number of rows the state snapshot table can hold
MaxStateNID == 3
\* number of successful InsertKeyChange calls in a run
MaxKeyChanges == 3
\* number of client SendToDevice requests in a run
MaxClientRequests == 2
\* number of (user, device) messages in the body of a SendToDevice request
MaxDeviceMessages == 2
\* number of devices a local user can have
MaxDevices == 3
\* the stream positions of the stored events: 1..MaxReIndexPos
MaxReIndexPos == 4
\* the limit of a ReIndex batch (1000 in the code)
ReIndexLimit == 2
\* number of one-time keys the devices make in a run
MaxOneTimeKeys == 2
\* the seconds time.Now().Unix() runs through: 1..MaxNow
MaxNow == 2
\* number of snapshot NIDs a BulkSelectStateBlockNIDs caller can ask for
MaxRequest == 2
\* device change IDs of key-change messages are 1..MaxChangeID
MaxChangeID == 2
\* sync positions the typing cache hands out: 1..MaxTypingPos
MaxTypingPos == 3

VARIABLES
    \* ---- syncapi_stream_id table ----
    streamID,      \* committed stream_id of every stream_name row
    txStreamID,    \* the rows as the transaction holding the write lock sees them
    writer,        \* the transaction holding the database write lock, or NoTxn
    txnOpen,       \* the set of open transactions
    returned,      \* per stream, the positions returned by next*ID so far, in order
    \* ---- syncapi_output_room_events_topology table ----
    topology,      \* the set of rows
    topoCall,      \* the last call on the topology table and what it returned
    \* ---- the account-data consumer (OutputClientDataConsumer) ----
    msgQueue,      \* the messages of the client-data topic not yet acknowledged
    published,     \* how many messages were published to the topic
    accountData,   \* the rows of the account data table
    ignores,       \* the users whose ignore list was stored
    adStream,      \* s.stream: the latest position of the account-data stream provider
    notifierPos,   \* the notifier's current AccountDataPosition
    notified,      \* the (user, position) pairs given to OnNewAccountData
    consCall,      \* the last onMessage call and what it did
    \* ---- the roomserver's rooms table and its RoomUpdaters ----
    rooms,         \* committed row of every room: latest events, last sent, snapshot
    roomInfoCache, \* the cached types.RoomInfo of every room
    rowLock,       \* per room row, the updater whose transaction holds its lock, or 0
    pending,       \* per updater, the rows its transaction has written and not committed
    updaters,      \* the RoomUpdater objects
    updCall,       \* the last RoomUpdater call and what it returned
    \* ---- roomserver_state_snapshots table ----
    stateSnapshots, \* the set of rows
    snapshotSeq,    \* the AUTOINCREMENT sequence of state_snapshot_nid
    insertedStates, \* what every InsertState call so far was given and returned
    snapCall,       \* the last call on the state snapshot table and what it returned
    \* ---- roomserver events and previous-events tables ----
    sentToOutput,   \* the event NIDs whose committed row has sent_to_output set
    pendingSent,    \* per updater, the event NIDs its transaction has marked as sent
    previousEvents, \* the event IDs with a row in the previous-events table
    \* ---- the key-change consumers of the sync API and the federation API ----
    deviceListStream, \* s.stream of the sync consumer: the device-list provider's latest position
    keyNotifierPos,   \* the notifier's current DeviceListPosition
    queuedEDUs,       \* the EDUs given to the federation queues by SendEDU
    \* ---- the typing cache (EDUCache) and the typing stream provider ----
    typingData,         \* room ID -> [userSet, syncPosition]
    latestSyncPosition, \* the position of the cache's latest change
    typingCall,         \* the sync call made since the cache last changed
    \* ---- roomserver_invites table ----
    invites,       \* the set of rows
    inviteCall,    \* the last call on the invites table and what it returned
    \* ---- keyserver_key_changes table ----
    keyChanges,        \* the set of rows
    keyChangeSeq,      \* the AUTOINCREMENT sequence of change_id
    keyChangeReturned, \* the users and change IDs of the successful InsertKeyChange calls
    keyChangeCall,     \* the last call on the key changes table and what it returned
    \* ---- the client API's SendToDevice handler and its transaction cache ----
    txnCache,      \* the (access token, transaction ID, URL) keys with a stored response
    clientReq,     \* per request, where its handler is and what it has left to send
    handed,        \* per key and message, how often it was handed to the producer
    \* ---- the SyncAPIProducer and its send-to-device topic ----
    sendToDeviceTopic, \* the (user, device) pairs of the messages published
    producerCall,      \* the last SendToDevice call of the producer and what it returned
    \* ---- keyserver_one_time_keys table ----
    oneTimeKeys,   \* the set of rows
    otkNow,        \* time.Now().Unix()
    otkUploaded,   \* how many keys the devices have made and uploaded
    claims,        \* per caller of SelectAndDeleteOneTimeKey, where its call is
    otkReturned,   \* the key IDs the SelectAndDeleteOneTimeKey calls have returned
    otkCall,       \* the last call on the one-time keys table that returned
    \* ---- full-text re-index ----
    ftsEvents,     \* the stored events ReIndex serves: stream position, and whether there is text to index
    reindex,       \* the re-index callback: where it is, and its locals id, offset and count
    ftsRead,       \* the stream positions the batches of the run have held
    ftsIndexed     \* the stream positions handed to the full-text index

streamVars == <<streamID, txStreamID, writer, txnOpen, returned>>
topoVars == <<topology, topoCall>>
consumerVars ==
    <<msgQueue, published, accountData, ignores, adStream, notifierPos, notified, consCall>>
updaterVars == <<rooms, roomInfoCache, rowLock, pending, updaters, updCall>>
snapVars == <<stateSnapshots, snapshotSeq, insertedStates, snapCall>>
eventVars == <<sentToOutput, pendingSent, previousEvents>>
keyVars == <<deviceListStream, keyNotifierPos, queuedEDUs>>
typingVars == <<typingData, latestSyncPosition, typingCall>>
inviteVars == <<invites, inviteCall>>
keyChangeVars == <<keyChanges, keyChangeSeq, keyChangeReturned, keyChangeCall>>
clientVars == <<txnCache, clientReq, handed>>
producerVars == <<sendToDeviceTopic, producerCall>>
otkVars == <<oneTimeKeys, otkNow, otkUploaded, claims, otkReturned, otkCall>>
reindexVars == <<ftsEvents, reindex, ftsRead, ftsIndexed>>
moreVars == <<inviteVars, keyChangeVars, clientVars, producerVars, otkVars, reindexVars>>
restVars == <<snapVars, eventVars, keyVars, typingVars, moreVars>>
vars == <<streamVars, topoVars, consumerVars, updaterVars, restVars>>

\* what a step on one of the later tables leaves unchanged
earlierVars ==
    <<streamVars, topoVars, consumerVars, updaterVars, snapVars, eventVars, keyVars, typingVars>>
exceptInvites == <<earlierVars, keyChangeVars, clientVars, producerVars, otkVars, reindexVars>>
exceptKeyChanges == <<earlierVars, inviteVars, clientVars, producerVars, otkVars, reindexVars>>
exceptClient == <<earlierVars, inviteVars, keyChangeVars, producerVars, otkVars, reindexVars>>
exceptProducer == <<earlierVars, inviteVars, keyChangeVars, clientVars, otkVars, reindexVars>>
exceptOneTimeKeys == <<earlierVars, inviteVars, keyChangeVars, clientVars, producerVars, reindexVars>>
exceptReIndex == <<earlierVars, inviteVars, keyChangeVars, clientVars, producerVars, otkVars>>

(***************************************************************************)
(* syncapi_stream_id: the stream position allocator.                       *)
(***************************************************************************)
\* the rows the schema inserts
StreamNames ==
    {"global", "receipt", "accountdata", "invite", "presence", "notification", "relation"}

\* a nil *sql.Tx: the statement runs on the database handle, in autocommit
NoTxn == 0
Txns == 1..MaxTxns

\* CREATE TABLE ... stream_id INT DEFAULT 0; INSERT ... VALUES (name, 0)
streamIDTableSchema == [s \in StreamNames |-> 0]

\* UPDATE syncapi_stream_id SET stream_id = stream_id + 1 WHERE stream_name = $1
IncreasedRows(rows, name) == [rows EXCEPT ![name] = @ + 1]

TotalReturned == LET RECURSIVE Sum(_)
                     Sum(S) == IF S = {} THEN 0
                               ELSE LET s == CHOOSE x \in S : TRUE
                                    IN Len(returned[s]) + Sum(S \ {s})
                 IN Sum(StreamNames)

\* db.Begin(): a transaction is opened; it takes no lock until it writes
BeginTxn(t) ==
    /\ t \notin txnOpen
    /\ txnOpen' = txnOpen \cup {t}
    /\ UNCHANGED <<streamID, txStreamID, writer, returned>>

\* The statement of next*ID, run through sqlutil.TxStmt(txn, stmt): inside txn it
\* needs the database write lock (held until the transaction ends); with a nil
\* txn it runs in autocommit and is durable at once. RETURNING stream_id gives
\* the row's new value.
increaseStreamIDStmt(txn, name) ==
    /\ TotalReturned < MaxCalls
    /\ \/ /\ txn \in txnOpen
          /\ writer \in {NoTxn, txn}
          /\ writer' = txn
          /\ txStreamID' = IncreasedRows(txStreamID, name)
          /\ UNCHANGED streamID
       \/ /\ txn = NoTxn
          /\ writer = NoTxn
          /\ txStreamID' = IncreasedRows(txStreamID, name)
          /\ streamID' = txStreamID'
          /\ UNCHANGED writer
    /\ returned' = [returned EXCEPT ![name] = Append(@, txStreamID'[name])]
    /\ UNCHANGED txnOpen

nextPDUID(txn) == increaseStreamIDStmt(txn, "global")
nextReceiptID(txn) == increaseStreamIDStmt(txn, "receipt")
nextInviteID(txn) == increaseStreamIDStmt(txn, "invite")
nextAccountDataID(txn) == increaseStreamIDStmt(txn, "accountdata")
nextPresenceID(txn) == increaseStreamIDStmt(txn, "presence")
nextNotificationID(txn) == increaseStreamIDStmt(txn, "notification")
nextRelationID(txn) == increaseStreamIDStmt(txn, "relation")

\* txn.Commit(): the transaction's writes become the committed rows
CommitTxn(t) ==
    /\ t \in txnOpen
    /\ txnOpen' = txnOpen \ {t}
    /\ IF writer = t
       THEN /\ streamID' = txStreamID
            /\ writer' = NoTxn
            /\ UNCHANGED txStreamID
       ELSE UNCHANGED <<streamID, txStreamID, writer>>
    /\ UNCHANGED returned

\* txn.Rollback(): the transaction's writes, the UPDATE of the counter row
\* among them, are undone
RollbackTxn(t) ==
    /\ t \in txnOpen
    /\ txnOpen' = txnOpen \ {t}
    /\ IF writer = t
       THEN /\ txStreamID' = streamID
            /\ writer' = NoTxn
            /\ UNCHANGED streamID
       ELSE UNCHANGED <<streamID, txStreamID, writer>>
    /\ UNCHANGED returned

(***************************************************************************)
(* syncapi_output_room_events_topology: the topology index.                *)
(***************************************************************************)
RoomIDs == {"!r:a", "!s:a"}

\* The events of the model. An event ID is the hash of the event's content, so
\* an event ID fixes the event's room and depth.
EventIDs == {"$create", "$M1", "$join", "$M2", "$M1b", "$other"}

EventDepth(e) ==
    CASE e = "$create" -> 0
      [] e = "$M1"     -> 1
      [] e = "$M1b"    -> 1
      [] e = "$join"   -> 2
      [] e = "$M2"     -> 3
      [] e = "$other"  -> 1

EventRoomID(e) == IF e = "$other" THEN "!s:a" ELSE "!r:a"

\* the greatest depth of an event of the model
MaxDepth == EventDepth("$M2")

\* types.TopologyToken and its zero value
TopologyToken(depth, pdu) == [Depth |-> depth, PDUPosition |-> pdu]
ZeroToken == TopologyToken(0, 0)

\* the table without its UNIQUE(topological_position, room_id, stream_position)
ConflictsWithPrimaryKeyOnly(row, rows) ==
    \E r \in rows : r.event_id = row.event_id

\* event_id TEXT PRIMARY KEY; UNIQUE(topological_position, room_id, stream_position)
ConflictsWith(row, rows) ==
    \E r \in rows :
        \/ r.event_id = row.event_id
        \/ /\ r.topological_position = row.topological_position
           /\ r.room_id = row.room_id
           /\ r.stream_position = row.stream_position

\* the statement as INSERT OR REPLACE: the new row displaces the rows it conflicts with
insertOrReplaceEventInTopologySQL(rows, row) ==
    {r \in rows : ~ConflictsWith(row, {r})} \cup {row}

\* INSERT INTO ... VALUES ($1, $2, $3, $4) ON CONFLICT DO NOTHING
insertEventInTopologySQL(rows, row) ==
    IF ConflictsWith(row, rows) THEN rows ELSE rows \cup {row}

NoCall == [op |-> "none"]

\* InsertEventInTopology(event, pos): returns (event.Depth(), err of the Exec)
InsertEventInTopology(e, pos) ==
    LET row == [event_id |-> e,
                topological_position |-> EventDepth(e),
                room_id |-> EventRoomID(e),
                stream_position |-> pos]
    IN /\ topoCall.op = "none"
       /\ topology' = insertEventInTopologySQL(topology, row)
       /\ topoCall' = [op |-> "InsertEventInTopology",
                       event |-> e, pos |-> pos,
                       before |-> topology,
                       ret |-> EventDepth(e), err |-> "nil"]

\* DELETE FROM syncapi_output_room_events_topology WHERE room_id = $1
PurgeEventsTopology(roomID) ==
    /\ topoCall.op = "none"
    /\ topology' = {r \in topology : r.room_id # roomID}
    /\ topoCall' = [op |-> "PurgeEventsTopology", room |-> roomID, err |-> "nil"]

\* the ORDER BY with its columns swapped: stream_position ASC, topological_position ASC
RowBeforeASCByStreamFirst(a, b) ==
    \/ a.stream_position < b.stream_position
    \/ /\ a.stream_position = b.stream_position
       /\ a.topological_position <= b.topological_position

\* ORDER BY topological_position ASC, stream_position ASC
RowBeforeASC(a, b) ==
    \/ a.topological_position < b.topological_position
    \/ /\ a.topological_position = b.topological_position
       /\ a.stream_position <= b.stream_position

\* ORDER BY topological_position DESC, stream_position DESC
RowBeforeDESC(a, b) ==
    \/ a.topological_position > b.topological_position
    \/ /\ a.topological_position = b.topological_position
       /\ a.stream_position >= b.stream_position

RECURSIVE OrderByASC(_)
OrderByASC(rows) ==
    IF rows = {} THEN <<>>
    ELSE LET first == CHOOSE x \in rows : \A y \in rows : RowBeforeASC(x, y)
         IN <<first>> \o OrderByASC(rows \ {first})

RECURSIVE OrderByDESC(_)
OrderByDESC(rows) ==
    IF rows = {} THEN <<>>
    ELSE LET first == CHOOSE x \in rows : \A y \in rows : RowBeforeDESC(x, y)
         IN <<first>> \o OrderByDESC(rows \ {first})

\* LIMIT $6
Limit(s, n) == SubSeq(s, 1, IF Len(s) < n THEN Len(s) ELSE n)

\* the ascending query with an inclusive lower bound: topological_position >= $2
selectEventIDsInRangeASCInclusiveSQL(rows, roomID, p2, p3, p4, p5, p6) ==
    Limit(OrderByASC({r \in rows :
            /\ r.room_id = roomID
            /\ \/ r.topological_position >= p2 /\ r.topological_position < p3
               \/ r.topological_position = p4 /\ r.stream_position >= p5}), p6)

\* WHERE room_id = $1 AND ((topological_position > $2 AND topological_position < $3)
\*                         OR (topological_position = $4 AND stream_position >= $5))
selectEventIDsInRangeASCSQL(rows, roomID, p2, p3, p4, p5, p6) ==
    Limit(OrderByASC({r \in rows :
            /\ r.room_id = roomID
            /\ \/ r.topological_position > p2 /\ r.topological_position < p3
               \/ r.topological_position = p4 /\ r.stream_position >= p5}), p6)

\* the descending query without the stream_position bound at the upper depth
selectEventIDsInRangeDESCAnyStreamSQL(rows, roomID, p2, p3, p4, p5, p6) ==
    Limit(OrderByDESC({r \in rows :
            /\ r.room_id = roomID
            /\ \/ r.topological_position > p2 /\ r.topological_position < p3
               \/ r.topological_position = p4}), p6)

\* the same with stream_position <= $5 and the descending order
selectEventIDsInRangeDESCSQL(rows, roomID, p2, p3, p4, p5, p6) ==
    Limit(OrderByDESC({r \in rows :
            /\ r.room_id = roomID
            /\ \/ r.topological_position > p2 /\ r.topological_position < p3
               \/ r.topological_position = p4 /\ r.stream_position <= p5}), p6)

\* The rows of the query SelectEventIDsInRange runs. QueryContext returns the
\* rows, none when nothing matches, with a nil error: sql.ErrNoRows is
\* returned by the Scan of a QueryRow only.
RangeRows(rows, roomID, minDepth, maxDepth, maxStreamPos, limit, chronologicalOrder) ==
    IF chronologicalOrder
    THEN selectEventIDsInRangeASCSQL(rows, roomID, minDepth, maxDepth, maxDepth, maxStreamPos, limit)
    ELSE selectEventIDsInRangeDESCSQL(rows, roomID, minDepth, maxDepth, maxDepth, maxStreamPos, limit)

\* SelectEventIDsInRange: eventIDs is a named result, nil until the first
\* append; start and end stay zero unless a row was scanned.
SelectEventIDsInRange(roomID, minDepth, maxDepth, maxStreamPos, limit, chronologicalOrder) ==
    LET got == RangeRows(topology, roomID, minDepth, maxDepth, maxStreamPos,
                         limit, chronologicalOrder)
        tokens == [i \in 1..Len(got) |->
                      TopologyToken(got[i].topological_position, got[i].stream_position)]
    IN /\ topoCall.op = "none"
       /\ topoCall' = [op |-> "SelectEventIDsInRange",
                       room |-> roomID, minDepth |-> minDepth, maxDepth |-> maxDepth,
                       maxStreamPos |-> maxStreamPos, limit |-> limit,
                       chronologicalOrder |-> chronologicalOrder,
                       eventIDs |-> [i \in 1..Len(got) |-> got[i].event_id],
                       eventIDsIsNil |-> (Len(got) = 0),
                       tokens |-> tokens,
                       start |-> IF Len(tokens) > 0 THEN tokens[1] ELSE ZeroToken,
                       end |-> IF Len(tokens) > 0 THEN tokens[Len(tokens)] ELSE ZeroToken,
                       err |-> "nil"]
       /\ UNCHANGED topology

\* the topological positions in ascending order
RECURSIVE SortAscending(_)
SortAscending(positions) ==
    IF positions = {} THEN <<>>
    ELSE LET first == CHOOSE x \in positions : \A y \in positions : x <= y
         IN <<first>> \o SortAscending(positions \ {first})

Reverse(list) == [i \in 1..Len(list) |-> list[Len(list) + 1 - i]]

\* SELECT topological_position ... WHERE room_id = $1 AND stream_position >= $2
\* ORDER BY topological_position ASC LIMIT 1
selectStreamToTopologicalPositionAscSQL(rows, roomID, streamPos) ==
    Limit(SortAscending({r.topological_position :
            r \in {x \in rows : x.room_id = roomID /\ x.stream_position >= streamPos}}), 1)

\* the descending statement ordered ascending
selectStreamToTopologicalPositionDescAscendingSQL(rows, roomID, streamPos) ==
    Limit(SortAscending({r.topological_position :
            r \in {x \in rows : x.room_id = roomID /\ x.stream_position <= streamPos}}), 1)

\* SELECT topological_position ... WHERE room_id = $1 AND stream_position <= $2
\* ORDER BY topological_position DESC LIMIT 1
selectStreamToTopologicalPositionDescSQL(rows, roomID, streamPos) ==
    Limit(Reverse(SortAscending({r.topological_position :
            r \in {x \in rows : x.room_id = roomID /\ x.stream_position <= streamPos}})), 1)

\* QueryRowContext(...).Scan(&topoPos): the first row's value, or
\* sql.ErrNoRows with topoPos left at zero
ScanRow(got) ==
    IF got = <<>> THEN [topoPos |-> 0, err |-> "sql.ErrNoRows"]
    ELSE [topoPos |-> got[1], err |-> "nil"]

\* SelectStreamToTopologicalPosition(ctx, txn, roomID, streamPos, backwardOrdering)
SelectStreamToTopologicalPosition(roomID, streamPos, backwardOrdering) ==
    LET scanned == IF backwardOrdering
                   THEN ScanRow(selectStreamToTopologicalPositionDescSQL(topology, roomID,
                                                                         streamPos))
                   ELSE ScanRow(selectStreamToTopologicalPositionAscSQL(topology, roomID,
                                                                        streamPos))
    IN /\ topoCall.op = "none"
       /\ topoCall' = [op |-> "SelectStreamToTopologicalPosition",
                       room |-> roomID, streamPos |-> streamPos,
                       backwardOrdering |-> backwardOrdering,
                       topoPos |-> scanned.topoPos, err |-> scanned.err]
       /\ UNCHANGED topology

\* the caller takes the result; the next call starts from here
ReturnToCaller ==
    /\ topoCall.op # "none"
    /\ topoCall' = NoCall
    /\ UNCHANGED topology

(***************************************************************************)
(* OutputClientDataConsumer: the account-data consumer of the sync API.    *)
(***************************************************************************)
Users == {"@alice:a", "@bob:a"}

\* A message of the client-data topic: a payload that does not parse, or an
\* eventutil.AccountData with the user ID of the message header.
Messages ==
    {[parses |-> FALSE]} \cup
    [parses : {TRUE}, userID : Users, RoomID : {"", "!r:a"}, Type : {"m.direct"},
     IgnoredUsers : {"nil", "set"}]

\* the client API publishes a message
Publish(m) ==
    /\ published < MaxMsgs
    /\ published' = published + 1
    /\ msgQueue' = Append(msgQueue, m)
    /\ UNCHANGED <<accountData, ignores, adStream, notifierPos, notified, consCall>>

\* The outcomes of s.db.UpsertAccountData: the transaction commits, or it
\* fails before the position is allocated, or it fails after nextAccountDataID
\* returned and is rolled back.
UpsertOutcomes == {"ok", "failed", "failed after allocation"}

\* the row of (user, room, type) is inserted or gets the new id
UpsertedRows(rows, m, id) ==
    {r \in rows : ~(r.user_id = m.userID /\ r.room_id = m.RoomID /\ r.type = m.Type)}
        \cup {[user_id |-> m.userID, room_id |-> m.RoomID, type |-> m.Type, id |-> id]}

\* s.db.UpsertAccountData(ctx, userID, roomID, type): in one write transaction
\* the next account-data position is allocated and the row written with it.
\* Gives the position and error returned.
UpsertAccountData(m, outcome) ==
    LET pos == txStreamID["accountdata"] + 1
    IN /\ writer = NoTxn
       /\ CASE outcome = "ok" ->
                 /\ txStreamID' = IncreasedRows(txStreamID, "accountdata")
                 /\ streamID' = txStreamID'
                 /\ accountData' = UpsertedRows(accountData, m, pos)
                 /\ returned' = [returned EXCEPT !["accountdata"] = Append(@, pos)]
            [] outcome = "failed" ->
                 UNCHANGED <<txStreamID, streamID, accountData, returned>>
            [] outcome = "failed after allocation" ->
                 /\ returned' = [returned EXCEPT !["accountdata"] = Append(@, pos)]
                 /\ UNCHANGED <<txStreamID, streamID, accountData>>
       /\ UNCHANGED <<writer, txnOpen>>

\* the streamPos and err of the call
UpsertReturns(outcome) ==
    CASE outcome = "ok" -> [streamPos |-> txStreamID["accountdata"] + 1, err |-> "nil"]
      [] outcome = "failed" -> [streamPos |-> 0, err |-> "error"]
      [] outcome = "failed after allocation" ->
            [streamPos |-> txStreamID["accountdata"] + 1, err |-> "error"]

\* s.db.UpdateIgnoresForUser(ctx, userID, ignored): stores the list, or fails
UpdateIgnoresForUser(userID, stored) ==
    ignores' = IF stored THEN ignores \cup {userID} ELSE ignores

\* s.stream.Advance(streamPos): the provider's latest position moves forward only
Advance(latest) ==
    adStream' = IF latest > adStream THEN latest ELSE adStream

\* s.notifier.OnNewAccountData(userID, StreamingToken{AccountDataPosition: p}):
\* the current position takes the update where it is greater, and the user's
\* waiters are woken
OnNewAccountData(userID, p) ==
    /\ notifierPos' = IF p > notifierPos THEN p ELSE notifierPos
    /\ notified' = notified \cup {[userID |-> userID, pos |-> p]}

\* what onMessage records of a call
ConsCall(m, ret, ack) ==
    [op |-> "onMessage", msg |-> m, streamPos |-> ret.streamPos, err |-> ret.err,
     ack |-> ack,
     before |-> [adStream |-> adStream, notifierPos |-> notifierPos, notified |-> notified]]

\* onMessage returned true: the message is acknowledged and leaves the topic;
\* returned false: it stays and is delivered again
Acked == msgQueue' = Tail(msgQueue)
NotAcked == UNCHANGED msgQueue

\* onMessage without the return on the error of UpsertAccountData: the
\* position that came with the error is advanced to and notified
onMessageIgnoringUpsertError(outcome, ignoresStored) ==
    /\ msgQueue # <<>>
    /\ LET m == Head(msgQueue)
       IN IF ~m.parses
          THEN /\ Acked
               /\ consCall' = ConsCall(m, [streamPos |-> 0, err |-> "parse"], TRUE)
               /\ UNCHANGED <<streamVars, accountData, ignores, adStream, notifierPos,
                              notified, moreVars>>
          ELSE /\ Len(returned["accountdata"]) < MaxCalls
               /\ UpsertAccountData(m, outcome)
               /\ IF m.IgnoredUsers # "nil"
                  THEN UpdateIgnoresForUser(m.userID, ignoresStored)
                  ELSE UNCHANGED ignores
               /\ Advance(UpsertReturns(outcome).streamPos)
               /\ OnNewAccountData(m.userID, UpsertReturns(outcome).streamPos)
               /\ Acked
               /\ consCall' = ConsCall(m, UpsertReturns(outcome), TRUE)
    /\ UNCHANGED published

\* onMessage returning true once the row is stored, without advancing the
\* stream provider or telling the notifier
onMessageAckingBeforeAdvance(outcome, ignoresStored) ==
    /\ msgQueue # <<>>
    /\ LET m == Head(msgQueue)
       IN IF ~m.parses
          THEN /\ Acked
               /\ consCall' = ConsCall(m, [streamPos |-> 0, err |-> "parse"], TRUE)
               /\ UNCHANGED <<streamVars, accountData, ignores, adStream, notifierPos,
                              notified, moreVars>>
          ELSE /\ Len(returned["accountdata"]) < MaxCalls
               /\ UpsertAccountData(m, outcome)
               /\ IF UpsertReturns(outcome).err # "nil"
                  THEN /\ NotAcked
                       /\ consCall' = ConsCall(m, UpsertReturns(outcome), FALSE)
                       /\ UNCHANGED <<ignores, adStream, notifierPos, notified>>
                  ELSE /\ Acked
                       /\ consCall' = ConsCall(m, UpsertReturns(outcome), TRUE)
                       /\ UNCHANGED <<ignores, adStream, notifierPos, notified>>
    /\ UNCHANGED published

\* onMessage(ctx, msgs): handles msgs[0], the oldest unacknowledged message
onMessage(outcome, ignoresStored) ==
    /\ msgQueue # <<>>
    /\ LET m == Head(msgQueue)
       IN IF ~m.parses
          THEN \* json.Unmarshal failed: log and move on to the next message
               /\ Acked
               /\ consCall' = ConsCall(m, [streamPos |-> 0, err |-> "parse"], TRUE)
               /\ UNCHANGED <<streamVars, accountData, ignores, adStream, notifierPos,
                              notified, moreVars>>
          ELSE /\ Len(returned["accountdata"]) < MaxCalls
               /\ UpsertAccountData(m, outcome)
               /\ IF UpsertReturns(outcome).err # "nil"
                  THEN \* could not save account data: return false
                       /\ NotAcked
                       /\ consCall' = ConsCall(m, UpsertReturns(outcome), FALSE)
                       /\ UNCHANGED <<ignores, adStream, notifierPos, notified>>
                  ELSE /\ IF m.IgnoredUsers # "nil"
                          THEN UpdateIgnoresForUser(m.userID, ignoresStored)
                          ELSE UNCHANGED ignores
                       /\ Advance(UpsertReturns(outcome).streamPos)
                       /\ OnNewAccountData(m.userID, UpsertReturns(outcome).streamPos)
                       /\ Acked
                       /\ consCall' = ConsCall(m, UpsertReturns(outcome), TRUE)
    /\ UNCHANGED published

\* the statements of onMessage that the process can stop in front of
StopPoints == {"UpsertAccountData", "Advance", "return"}

\* the process starts again: the stream provider and the notifier take the
\* persisted account-data position as their position
Restart ==
    /\ adStream' = streamID'["accountdata"]
    /\ notifierPos' = streamID'["accountdata"]

\* The process stops while onMessage handles a well-formed message, in front
\* of the named statement, and starts again. What the handler did before that
\* statement is done; the message was not acknowledged.
onMessageStopped(stoppedBefore, ignoresStored) ==
    /\ msgQueue # <<>>
    /\ LET m == Head(msgQueue)
       IN /\ m.parses
          /\ IF stoppedBefore = "UpsertAccountData"
             THEN /\ UNCHANGED <<streamVars, accountData, ignores, notified, moreVars>>
                  /\ consCall' = [op |-> "onMessage stopped", msg |-> m,
                                  stoppedBefore |-> stoppedBefore, streamPos |-> 0,
                                  ack |-> FALSE]
             ELSE /\ Len(returned["accountdata"]) < MaxCalls
                  /\ UpsertAccountData(m, "ok")
                  /\ IF m.IgnoredUsers # "nil"
                     THEN UpdateIgnoresForUser(m.userID, ignoresStored)
                     ELSE UNCHANGED ignores
                  /\ notified' =
                        IF stoppedBefore = "return"
                        THEN notified \cup {[userID |-> m.userID,
                                             pos |-> UpsertReturns("ok").streamPos]}
                        ELSE notified
                  /\ consCall' = [op |-> "onMessage stopped", msg |-> m,
                                  stoppedBefore |-> stoppedBefore,
                                  streamPos |-> UpsertReturns("ok").streamPos,
                                  ack |-> FALSE]
          /\ Restart
    /\ NotAcked
    /\ UNCHANGED published

(***************************************************************************)
(* The key-change consumers: OutputKeyChangeEventConsumer of the sync API  *)
(* and KeyChangeConsumer of the federation API.                            *)
(***************************************************************************)
\* User IDs as the pieces the parsers look at: a local user, a user of another
\* server, a string without sigil and domain, and an ID with a sigil and a
\* domain whose localpart is not allowed.
LocalUserID == <<"@", "alice", ":", "a">>
RemoteUserID == <<"@", "carol", ":", "b">>
KeyUserIDs == {LocalUserID, RemoteUserID, <<"alice">>, <<"@", "al ice", ":", "a">>}

\* cfg.Matrix.IsLocalServerName
isLocalServerName(serverName) == serverName = "a"

\* gomatrixserverlib.SplitID('@', id): the localpart and the domain, or an error
\* when the sigil or the colon is missing
SplitID(sigil, id) ==
    IF Len(id) >= 4 /\ id[1] = sigil /\ id[3] = ":"
    THEN [local |-> id[2], domain |-> id[4], err |-> "nil"]
    ELSE [local |-> "", domain |-> "", err |-> "error"]

\* spec.NewUserID(id, true): an error when the ID does not split or the
\* localpart holds a character that is not allowed
NewUserID(id) ==
    IF SplitID("@", id).err = "nil" /\ id[2] \in {"alice", "carol"}
    THEN [userID |-> id, err |-> "nil"]
    ELSE [userID |-> <<>>, err |-> "error"]

\* A message of the key-change topic: a payload that does not parse, or an
\* api.DeviceMessage with its type, its two optional payloads, the user the
\* payload names and the device change ID.
KeyMessages ==
    {[parses |-> FALSE]} \cup
    [parses : {TRUE}, Type : {"TypeDeviceKeyUpdate", "TypeCrossSigningUpdate"},
     DeviceKeys : {"nil", "set"}, OutputCrossSigningKeyUpdate : {"nil", "set"},
     UserID : KeyUserIDs, DeviceChangeID : 1..MaxChangeID]

\* the components of a types.StreamingToken, one per stream
TokenComponents ==
    {"PDUPosition", "TypingPosition", "ReceiptPosition", "SendToDevicePosition",
     "InvitePosition", "AccountDataPosition", "DeviceListPosition",
     "NotificationDataPosition", "PresencePosition"}

\* types.StreamingToken{}: no component is set
NoToken == [c \in TokenComponents |-> 0]

\* types.StreamingToken{component: p}
StreamingToken(component, p) == [NoToken EXCEPT ![component] = p]

\* the notifier's current position of one component after it applied the
\* token: the component moves forward where the token is ahead of it
ApplyUpdates(current, token, component) ==
    IF token[component] > current THEN token[component] ELSE current

\* what a handler did: its return value, the call that failed (if one was
\* made and failed), the position it advanced the stream to and the users it
\* notified, or the EDU it queued
Handled(ret, failed) ==
    [ret |-> ret, failed |-> failed, advance |-> 0, notify |-> {}, token |-> NoToken,
     edu |-> "none", destinations |-> {}]

\* a handler that dereferences an absent payload faults: it does not return
Faulted == [Handled(FALSE, "none") EXCEPT !.failed = "nil pointer dereference"]

\* onDeviceKeyMessage notifying with the position in the token's
\* AccountDataPosition
onDeviceKeyMessageAccountDataToken(m, deviceChangeID, sharedUsers, queryFails) ==
    IF m.DeviceKeys = "nil" THEN Handled(TRUE, "none")
    ELSE IF queryFails THEN Handled(TRUE, "QuerySharedUsers")
    ELSE [Handled(TRUE, "none") EXCEPT
             !.advance = deviceChangeID,
             !.notify = sharedUsers \cup {m.UserID},
             !.token = StreamingToken("AccountDataPosition", deviceChangeID)]

\* OutputKeyChangeEventConsumer.onDeviceKeyMessage(m, deviceChangeID)
OutputKeyChangeEventConsumer_onDeviceKeyMessage(m, deviceChangeID, sharedUsers, queryFails) ==
    IF m.DeviceKeys = "nil" THEN Handled(TRUE, "none")
    ELSE IF queryFails THEN Handled(TRUE, "QuerySharedUsers")
    ELSE [Handled(TRUE, "none") EXCEPT
             !.advance = deviceChangeID,
             !.notify = sharedUsers \cup {m.UserID},
             !.token = StreamingToken("DeviceListPosition", deviceChangeID)]

\* OutputKeyChangeEventConsumer.onCrossSigningMessage(m, deviceChangeID)
OutputKeyChangeEventConsumer_onCrossSigningMessage(m, deviceChangeID, sharedUsers, queryFails) ==
    IF m.OutputCrossSigningKeyUpdate = "nil" THEN Faulted
    ELSE IF queryFails THEN Handled(TRUE, "QuerySharedUsers")
    ELSE [Handled(TRUE, "none") EXCEPT
             !.advance = deviceChangeID,
             !.notify = sharedUsers \cup {m.UserID},
             !.token = StreamingToken("DeviceListPosition", deviceChangeID)]

\* the sync handler returning false for a payload that does not parse
OutputKeyChangeEventConsumer_onMessageRetryingParse(m, sharedUsers, queryFails) ==
    IF ~m.parses THEN Handled(FALSE, "none")
    ELSE IF m.DeviceKeys = "nil" /\ m.OutputCrossSigningKeyUpdate = "nil"
    THEN Handled(TRUE, "none")
    ELSE IF m.Type = "TypeCrossSigningUpdate"
    THEN OutputKeyChangeEventConsumer_onCrossSigningMessage(m, m.DeviceChangeID,
                                                            sharedUsers, queryFails)
    ELSE OutputKeyChangeEventConsumer_onDeviceKeyMessage(m, m.DeviceChangeID,
                                                         sharedUsers, queryFails)

\* OutputKeyChangeEventConsumer.onMessage(ctx, msgs)
OutputKeyChangeEventConsumer_onMessage(m, sharedUsers, queryFails) ==
    IF ~m.parses THEN Handled(TRUE, "none")
    ELSE IF m.DeviceKeys = "nil" /\ m.OutputCrossSigningKeyUpdate = "nil"
    THEN Handled(TRUE, "none")
    ELSE IF m.Type = "TypeCrossSigningUpdate"
    THEN OutputKeyChangeEventConsumer_onCrossSigningMessage(m, m.DeviceChangeID,
                                                            sharedUsers, queryFails)
    ELSE OutputKeyChangeEventConsumer_onDeviceKeyMessage(m, m.DeviceChangeID,
                                                         sharedUsers, queryFails)

\* the calls of the federation handlers that can fail, in the order they are made
FederationCalls == <<"QueryRoomsForUser", "GetJoinedHostsForRooms", "json.Marshal", "SendEDU">>
FederationFailures == {"none"} \cup {FederationCalls[i] : i \in 1..Len(FederationCalls)}

\* the steps of a handler that sends on the updates of every server's users
FederationSendAnyServer(userID, eduType, destinations, failure) ==
    LET split == SplitID("@", userID)
    IN IF split.err # "nil" THEN Handled(TRUE, "none")
       ELSE IF NewUserID(userID).err # "nil" THEN Handled(TRUE, "none")
       ELSE IF failure = "QueryRoomsForUser" THEN Handled(TRUE, "QueryRoomsForUser")
       ELSE IF failure = "GetJoinedHostsForRooms" THEN Handled(TRUE, "GetJoinedHostsForRooms")
       ELSE IF destinations = {} THEN Handled(TRUE, "none")
       ELSE IF failure = "json.Marshal" THEN Handled(TRUE, "json.Marshal")
       ELSE IF failure = "SendEDU" THEN Handled(FALSE, "SendEDU")
       ELSE [Handled(TRUE, "none") EXCEPT !.edu = eduType, !.destinations = destinations]

\* the steps both federation handlers share after the user ID was taken from
\* the payload
FederationSend(userID, eduType, destinations, failure) ==
    LET split == SplitID("@", userID)
    IN IF split.err # "nil" THEN Handled(TRUE, "none")
       ELSE IF ~isLocalServerName(split.domain) THEN Handled(TRUE, "none")
       ELSE IF NewUserID(userID).err # "nil" THEN Handled(TRUE, "none")
       ELSE IF failure = "QueryRoomsForUser" THEN Handled(TRUE, "QueryRoomsForUser")
       ELSE IF failure = "GetJoinedHostsForRooms" THEN Handled(TRUE, "GetJoinedHostsForRooms")
       ELSE IF destinations = {} THEN Handled(TRUE, "none")
       ELSE IF failure = "json.Marshal" THEN Handled(TRUE, "json.Marshal")
       ELSE IF failure = "SendEDU" THEN Handled(FALSE, "SendEDU")
       ELSE [Handled(TRUE, "none") EXCEPT !.edu = eduType, !.destinations = destinations]

\* KeyChangeConsumer.onDeviceKeyMessage(m)
KeyChangeConsumer_onDeviceKeyMessage(m, destinations, failure) ==
    IF m.DeviceKeys = "nil" THEN Handled(TRUE, "none")
    ELSE FederationSend(m.UserID, "m.device_list_update", destinations, failure)

\* KeyChangeConsumer.onCrossSigningMessage(m)
KeyChangeConsumer_onCrossSigningMessage(m, destinations, failure) ==
    IF m.OutputCrossSigningKeyUpdate = "nil" THEN Faulted
    ELSE FederationSend(m.UserID, "m.signing_key_update", destinations, failure)

\* KeyChangeConsumer.onMessage(ctx, msgs)
KeyChangeConsumer_onMessage(m, destinations, failure) ==
    IF ~m.parses THEN Handled(TRUE, "none")
    ELSE IF m.DeviceKeys = "nil" /\ m.OutputCrossSigningKeyUpdate = "nil"
    THEN Handled(TRUE, "none")
    ELSE IF m.Type = "TypeCrossSigningUpdate"
    THEN KeyChangeConsumer_onCrossSigningMessage(m, destinations, failure)
    ELSE KeyChangeConsumer_onDeviceKeyMessage(m, destinations, failure)

\* the sync key-change consumer is given message m: s.stream.Advance and
\* s.notifier.OnNewKeyChange for every user to notify
SyncKeyChange(m, sharedUsers, queryFails) ==
    LET h == OutputKeyChangeEventConsumer_onMessage(m, sharedUsers, queryFails)
    IN /\ deviceListStream' =
             IF h.advance > deviceListStream THEN h.advance ELSE deviceListStream
       /\ keyNotifierPos' =
             IF h.notify # {}
             THEN ApplyUpdates(keyNotifierPos, h.token, "DeviceListPosition")
             ELSE keyNotifierPos
       /\ notifierPos' =
             IF h.notify # {}
             THEN ApplyUpdates(notifierPos, h.token, "AccountDataPosition")
             ELSE notifierPos
       /\ consCall' = [op |-> "OutputKeyChangeEventConsumer.onMessage", msg |-> m,
                       ack |-> h.ret, failed |-> h.failed, advance |-> h.advance,
                       notify |-> h.notify, token |-> h.token]
       /\ UNCHANGED <<queuedEDUs, msgQueue, published, accountData, ignores, adStream,
                      notified>>

\* the federation key-change consumer is given message m: t.queues.SendEDU
FederationKeyChange(m, destinations, failure) ==
    LET h == KeyChangeConsumer_onMessage(m, destinations, failure)
    IN /\ queuedEDUs' =
             IF h.edu # "none"
             THEN queuedEDUs \cup {[Type |-> h.edu, destinations |-> h.destinations]}
             ELSE queuedEDUs
       /\ consCall' = [op |-> "KeyChangeConsumer.onMessage", msg |-> m,
                       ack |-> h.ret, failed |-> h.failed, edu |-> h.edu]
       /\ UNCHANGED <<deviceListStream, keyNotifierPos, msgQueue, published, accountData,
                      ignores, adStream, notifierPos, notified>>

(***************************************************************************)
(* RoomUpdater: the unit of work on one room of the roomserver.            *)
(***************************************************************************)
RoomNIDs == {1, 2}
\* a nil *types.RoomInfo: the room does not exist yet
NilRoomInfo == 0
\* two RoomUpdater objects can be alive at once
Updaters == {1, 2}
NoUpdater == 0
EventNIDs == 1..MaxEventNID
StateSnapshotNIDs == 1..MaxSnapshotNID

\* the event ID stored for an event NID (EventsTable.SelectEventID)
SelectEventID(eventNID) == <<"$e1", "$e2", "$e3", "$e4">>[eventNID]

\* a room row before any event was accepted: a stub
StubRoom == [latest |-> <<>>, lastSent |-> 0, snapshot |-> 0]
NoRow == [written |-> FALSE]

\* the lists of latest events a caller can pass: none, or all the events
LatestLists == {<<>>, [i \in 1..MaxEventNID |-> i]}

UnusedUpdater == [state |-> "none"]

\* RoomsTable.SelectLatestEventsNIDsForUpdate(ctx, txn, roomNID): reads the row
\* and, inside a transaction, locks it until the transaction ends; it waits
\* while another transaction holds the lock. With a nil txn the statement runs
\* on its own and no lock outlives it.
SelectLatestEventsNIDsForUpdate(u, hasTxn, roomNID) ==
    IF hasTxn
    THEN /\ rowLock[roomNID] \in {NoUpdater, u}
         /\ rowLock' = [rowLock EXCEPT ![roomNID] = u]
    ELSE /\ rowLock[roomNID] = NoUpdater
         /\ UNCHANGED rowLock

\* the locks of updater u's transaction are released
Released(u) == [r \in RoomNIDs |-> IF rowLock[r] = u THEN NoUpdater ELSE rowLock[r]]

\* the row locks once SelectLatestEventsNIDsForUpdate has read the row of
\* roomNID: inside a transaction the row is locked by it
LockedForUpdate(u, hasTxn, roomNID) ==
    IF hasTxn THEN [rowLock EXCEPT ![roomNID] = u] ELSE rowLock

\* a rollback that leaves the transaction open
rollbackSkipped(u, hasTxn, locks) == locks

\* rollback(txn): nothing for a nil txn, else txn.Rollback(), which ends the
\* transaction and releases the row locks it holds
rollback(u, hasTxn, locks) ==
    IF ~hasTxn THEN locks
    ELSE [r \in RoomNIDs |-> IF locks[r] = u THEN NoUpdater ELSE locks[r]]

\* a constructor that takes a nil RoomInfo for the first room and loads it
NewRoomUpdaterLoadingFirstRoom(u, hasTxn, roomInfo, loadFails) ==
    LET room == IF roomInfo = NilRoomInfo THEN 1 ELSE roomInfo
    IN /\ updaters[u].state = "none"
       /\ SelectLatestEventsNIDsForUpdate(u, hasTxn, room)
       /\ updaters' = [updaters EXCEPT ![u] =
             [state |-> "open", txn |-> hasTxn, roomInfo |-> roomInfo,
              latestEvents |-> rooms[room].latest, lastEventIDSent |-> "",
              currentStateSnapshotNID |-> rooms[room].snapshot, roomExists |-> TRUE]]
       /\ updCall' = [op |-> "NewRoomUpdater", u |-> u, txn |-> hasTxn,
                      roomInfo |-> roomInfo, err |-> "nil"]
       /\ UNCHANGED <<rooms, roomInfoCache, pending>>

\* NewRoomUpdater(ctx, d, txn, roomInfo)
NewRoomUpdater(u, hasTxn, roomInfo, loadFails) ==
    /\ updaters[u].state = "none"
    /\ IF roomInfo = NilRoomInfo
       THEN \* the room does not exist yet: no row to lock
            /\ updaters' = [updaters EXCEPT ![u] =
                  [state |-> "open", txn |-> hasTxn, roomInfo |-> NilRoomInfo,
                   latestEvents |-> <<>>, lastEventIDSent |-> "",
                   currentStateSnapshotNID |-> 0, roomExists |-> FALSE]]
            /\ updCall' = [op |-> "NewRoomUpdater", u |-> u, txn |-> hasTxn,
                           roomInfo |-> roomInfo, err |-> "nil"]
            /\ UNCHANGED rowLock
       ELSE IF loadFails
            THEN \* a load failed: rollback(txn), return nil, err
                 /\ rowLock[roomInfo] \in {NoUpdater, u}
                 /\ rowLock' = rollback(u, hasTxn, LockedForUpdate(u, hasTxn, roomInfo))
                 /\ UNCHANGED updaters
                 /\ updCall' = [op |-> "NewRoomUpdater", u |-> u, txn |-> hasTxn,
                                roomInfo |-> roomInfo, err |-> "error"]
            ELSE /\ SelectLatestEventsNIDsForUpdate(u, hasTxn, roomInfo)
                 /\ updaters' = [updaters EXCEPT ![u] =
                       [state |-> "open", txn |-> hasTxn, roomInfo |-> roomInfo,
                        latestEvents |-> rooms[roomInfo].latest,
                        lastEventIDSent |->
                            IF rooms[roomInfo].lastSent # 0
                            THEN SelectEventID(rooms[roomInfo].lastSent) ELSE "",
                        currentStateSnapshotNID |-> rooms[roomInfo].snapshot,
                        roomExists |-> TRUE]]
                 /\ updCall' = [op |-> "NewRoomUpdater", u |-> u, txn |-> hasTxn,
                                roomInfo |-> roomInfo, err |-> "nil"]
    /\ UNCHANGED <<rooms, roomInfoCache, pending>>

\* what sql.Tx.Commit and sql.Tx.Rollback can return
TxnResults == {"nil", "error"}

\* Commit: nil with a nil txn, else the result of the transaction's Commit.
\* A Commit that succeeds makes the transaction's writes the committed rows; a
\* Commit that fails leaves the committed rows as they were. Either way the
\* transaction is over and its locks are released.
Commit(u, txnResult) ==
    /\ updaters[u].state = "open"
    /\ IF updaters[u].txn
       THEN /\ IF txnResult = "nil"
               THEN /\ rooms' = [r \in RoomNIDs |->
                                    IF pending[u][r] # NoRow THEN pending[u][r].row
                                    ELSE rooms[r]]
                    /\ sentToOutput' = sentToOutput \cup pendingSent[u]
               ELSE UNCHANGED <<rooms, sentToOutput>>
            /\ pending' = [pending EXCEPT ![u] = [r \in RoomNIDs |-> NoRow]]
            /\ pendingSent' = [pendingSent EXCEPT ![u] = {}]
            /\ rowLock' = Released(u)
            /\ updCall' = [op |-> "Commit", u |-> u, txn |-> TRUE,
                           txnResult |-> txnResult, err |-> txnResult]
       ELSE /\ txnResult = "nil"
            /\ updCall' = [op |-> "Commit", u |-> u, txn |-> FALSE,
                           txnResult |-> "none", err |-> "nil"]
            /\ UNCHANGED <<rooms, pending, rowLock, sentToOutput, pendingSent>>
    /\ updaters' = [updaters EXCEPT ![u] = UnusedUpdater]
    /\ UNCHANGED <<roomInfoCache, previousEvents>>

\* a Rollback that reports a missing transaction as an error
RollbackRejectingNilTxn(u, txnResult) ==
    /\ updaters[u].state = "open"
    /\ pending' = [pending EXCEPT ![u] = [r \in RoomNIDs |-> NoRow]]
    /\ pendingSent' = [pendingSent EXCEPT ![u] = {}]
    /\ rowLock' = Released(u)
    /\ updCall' = IF updaters[u].txn
                  THEN [op |-> "Rollback", u |-> u, txn |-> TRUE,
                        txnResult |-> txnResult, err |-> txnResult]
                  ELSE [op |-> "Rollback", u |-> u, txn |-> FALSE,
                        txnResult |-> "none", err |-> "error"]
    /\ updaters' = [updaters EXCEPT ![u] = UnusedUpdater]
    /\ UNCHANGED <<rooms, roomInfoCache, sentToOutput, previousEvents>>

\* Rollback: nil with a nil txn, else the result of the transaction's Rollback,
\* which drops the transaction's writes and releases its locks
Rollback(u, txnResult) ==
    /\ updaters[u].state = "open"
    /\ IF updaters[u].txn
       THEN /\ pending' = [pending EXCEPT ![u] = [r \in RoomNIDs |-> NoRow]]
            /\ pendingSent' = [pendingSent EXCEPT ![u] = {}]
            /\ rowLock' = Released(u)
            /\ updCall' = [op |-> "Rollback", u |-> u, txn |-> TRUE,
                           txnResult |-> txnResult, err |-> txnResult]
       ELSE /\ txnResult = "nil"
            /\ updCall' = [op |-> "Rollback", u |-> u, txn |-> FALSE,
                           txnResult |-> "none", err |-> "nil"]
            /\ UNCHANGED <<pending, rowLock, pendingSent>>
    /\ updaters' = [updaters EXCEPT ![u] = UnusedUpdater]
    /\ UNCHANGED <<rooms, roomInfoCache, sentToOutput, previousEvents>>

\* what a SetLatestEvents call records: its arguments and its error
SetLatestEventsCall(u, roomNID, latest, lastEventNIDSent, currentStateSnapshotNID, err) ==
    [op |-> "SetLatestEvents", u |-> u, roomNID |-> roomNID, latest |-> latest,
     lastEventNIDSent |-> lastEventNIDSent,
     currentStateSnapshotNID |-> currentStateSnapshotNID, err |-> err]

\* the switch without its last case
SetLatestEventsRejectsNoLastSentCase(latest, lastEventNIDSent, currentStateSnapshotNID) ==
    \/ Len(latest) = 0
    \/ currentStateSnapshotNID = 0

\* the switch at the head of SetLatestEvents
SetLatestEventsRejects(latest, lastEventNIDSent, currentStateSnapshotNID) ==
    \/ Len(latest) = 0
    \/ currentStateSnapshotNID = 0
    \/ lastEventNIDSent = 0

\* RoomsTable.UpdateLatestEventNIDs run by Writer.Do(db, u.txn, ...): inside the
\* updater's transaction the row is written in the transaction (and locked by
\* it); with a nil txn the writer runs the update in a transaction of its own
\* and commits it
UpdateLatestEventNIDs(u, roomNID, eventNIDs, lastEventNIDSent, currentStateSnapshotNID) ==
    LET row == [latest |-> eventNIDs, lastSent |-> lastEventNIDSent,
                snapshot |-> currentStateSnapshotNID]
    IN IF updaters[u].txn
       THEN /\ rowLock[roomNID] \in {NoUpdater, u}
            /\ rowLock' = [rowLock EXCEPT ![roomNID] = u]
            /\ pending' = [pending EXCEPT ![u][roomNID] = [written |-> TRUE, row |-> row]]
            /\ UNCHANGED rooms
       ELSE /\ rowLock[roomNID] = NoUpdater
            /\ rooms' = [rooms EXCEPT ![roomNID] = row]
            /\ UNCHANGED <<rowLock, pending>>

\* SetLatestEvents(roomNID, latest, lastEventNIDSent, currentStateSnapshotNID)
SetLatestEvents(u, roomNID, latest, lastEventNIDSent, currentStateSnapshotNID, updateFails) ==
    /\ updaters[u].state = "open"
    /\ IF SetLatestEventsRejects(latest, lastEventNIDSent, currentStateSnapshotNID)
       THEN /\ updCall' = SetLatestEventsCall(u, roomNID, latest, lastEventNIDSent,
                                              currentStateSnapshotNID, "error")
            /\ UNCHANGED <<rooms, roomInfoCache, rowLock, pending>>
       ELSE IF updateFails
            THEN \* u.d.RoomsTable.updateLatestEventNIDs: %w
                 /\ updCall' = SetLatestEventsCall(u, roomNID, latest, lastEventNIDSent,
                                                   currentStateSnapshotNID, "error")
                 /\ UNCHANGED <<rooms, roomInfoCache, rowLock, pending>>
            ELSE /\ UpdateLatestEventNIDs(u, roomNID, latest, lastEventNIDSent,
                                          currentStateSnapshotNID)
                 /\ roomInfoCache' =
                       IF updaters[u].roomInfo # NilRoomInfo
                       THEN [roomInfoCache EXCEPT ![updaters[u].roomInfo] =
                               [StateSnapshotNID |-> currentStateSnapshotNID,
                                IsStub |-> FALSE]]
                       ELSE roomInfoCache
                 /\ updCall' = SetLatestEventsCall(u, roomNID, latest, lastEventNIDSent,
                                                   currentStateSnapshotNID, "nil")
    /\ UNCHANGED updaters

(***************************************************************************)
(* RoomUpdater: the sent-to-output flag and the previous-events lookup.    *)
(***************************************************************************)
\* the event IDs that events name as their previous events
PrevEventIDs == {"$p1", "$p2"}

\* what updater u's reads see of the sent flags: the committed rows and the
\* writes of its own transaction
SentAsSeenBy(u) == sentToOutput \cup pendingSent[u]

\* EventsTable.SelectEventSentToOutput(ctx, txn, eventNID)
SelectEventSentToOutput(u, eventNID) == eventNID \in SentAsSeenBy(u)

\* a reader that sees the writes of its own transaction only
HasEventBeenSentInOwnTxnOnly(u, eventNID, readFails) ==
    /\ updaters[u].state = "open"
    /\ updCall' = IF readFails
                  THEN [op |-> "HasEventBeenSent", u |-> u, eventNID |-> eventNID,
                        sent |-> FALSE, err |-> "error"]
                  ELSE [op |-> "HasEventBeenSent", u |-> u, eventNID |-> eventNID,
                        sent |-> eventNID \in pendingSent[u], err |-> "nil"]
    /\ UNCHANGED <<rooms, roomInfoCache, rowLock, pending, updaters, eventVars>>

\* HasEventBeenSent(eventNID)
HasEventBeenSent(u, eventNID, readFails) ==
    /\ updaters[u].state = "open"
    /\ updCall' = IF readFails
                  THEN [op |-> "HasEventBeenSent", u |-> u, eventNID |-> eventNID,
                        sent |-> FALSE, err |-> "error"]
                  ELSE [op |-> "HasEventBeenSent", u |-> u, eventNID |-> eventNID,
                        sent |-> SelectEventSentToOutput(u, eventNID), err |-> "nil"]
    /\ UNCHANGED <<rooms, roomInfoCache, rowLock, pending, updaters, eventVars>>

\* EventsTable.UpdateEventSentToOutput run by Writer.Do(db, u.txn, ...): inside
\* the updater's transaction the flag is written in the transaction, and the
\* write waits while another transaction has written the row; with a nil txn
\* the writer runs the update in a transaction of its own and commits it
UpdateEventSentToOutput(u, eventNID) ==
    /\ \A o \in Updaters \ {u} : eventNID \notin pendingSent[o]
    /\ IF updaters[u].txn
       THEN /\ pendingSent' = [pendingSent EXCEPT ![u] = @ \cup {eventNID}]
            /\ UNCHANGED sentToOutput
       ELSE /\ sentToOutput' = sentToOutput \cup {eventNID}
            /\ UNCHANGED pendingSent

\* MarkEventAsSent(eventNID)
MarkEventAsSent(u, eventNID, updateFails) ==
    /\ updaters[u].state = "open"
    /\ IF updateFails
       THEN /\ updCall' = [op |-> "MarkEventAsSent", u |-> u, eventNID |-> eventNID,
                           err |-> "error"]
            /\ UNCHANGED <<sentToOutput, pendingSent>>
       ELSE /\ UpdateEventSentToOutput(u, eventNID)
            /\ updCall' = [op |-> "MarkEventAsSent", u |-> u, eventNID |-> eventNID,
                           err |-> "nil"]
    /\ UNCHANGED <<rooms, roomInfoCache, rowLock, pending, updaters, previousEvents>>

\* PrevEventsTable.InsertPreviousEvent(ctx, nil, previousEventID, eventNID)
InsertPreviousEvent(previousEventID, eventNID) ==
    /\ previousEvents' = previousEvents \cup {previousEventID}
    /\ updCall' = [op |-> "InsertPreviousEvent", eventID |-> previousEventID, err |-> "nil"]
    /\ UNCHANGED <<rooms, roomInfoCache, rowLock, pending, updaters,
                   sentToOutput, pendingSent>>

\* PrevEventsTable.SelectPreviousEventExists(ctx, txn, eventID): nil when a row
\* names the event, sql.ErrNoRows when none does, another error when the
\* lookup fails
SelectPreviousEventExists(eventID, lookupFails) ==
    IF lookupFails THEN "error"
    ELSE IF eventID \in previousEvents THEN "nil"
    ELSE "sql.ErrNoRows"

\* a lookup that reports sql.ErrNoRows to its caller like any other error
IsReferencedNoRowsIsError(u, eventID, lookupFails) ==
    LET err == SelectPreviousEventExists(eventID, lookupFails)
    IN /\ updaters[u].state = "open"
       /\ updCall' = IF err = "nil"
                     THEN [op |-> "IsReferenced", u |-> u, eventID |-> eventID,
                           lookup |-> err, referenced |-> TRUE, err |-> "nil"]
                     ELSE [op |-> "IsReferenced", u |-> u, eventID |-> eventID,
                           lookup |-> err, referenced |-> FALSE, err |-> "error"]
       /\ UNCHANGED <<rooms, roomInfoCache, rowLock, pending, updaters, eventVars>>

\* IsReferenced(eventID)
IsReferenced(u, eventID, lookupFails) ==
    LET err == SelectPreviousEventExists(eventID, lookupFails)
    IN /\ updaters[u].state = "open"
       /\ updCall' = IF err = "nil"
                     THEN [op |-> "IsReferenced", u |-> u, eventID |-> eventID,
                           lookup |-> err, referenced |-> TRUE, err |-> "nil"]
                     ELSE IF err = "sql.ErrNoRows"
                     THEN [op |-> "IsReferenced", u |-> u, eventID |-> eventID,
                           lookup |-> err, referenced |-> FALSE, err |-> "nil"]
                     ELSE [op |-> "IsReferenced", u |-> u, eventID |-> eventID,
                           lookup |-> err, referenced |-> FALSE, err |-> "error"]
       /\ UNCHANGED <<rooms, roomInfoCache, rowLock, pending, updaters, eventVars>>

(***************************************************************************)
(* RoomUpdater: the methods that read the updater's RoomInfo.              *)
(***************************************************************************)
\* the room version recorded in the RoomInfo of every room
RoomInfoRoomVersion(roomNID) == <<"9", "10">>[roomNID]

\* what a call returns when it dereferences a nil *types.RoomInfo: the Go
\* runtime panics, the method returns neither a value nor an error
NilDereference == "panic: nil pointer dereference"

\* RoomVersion(): u.roomInfo.RoomVersion
RoomVersion(u) ==
    /\ updaters[u].state = "open"
    /\ updCall' = IF updaters[u].roomInfo = NilRoomInfo
                  THEN [op |-> "RoomVersion", u |-> u, version |-> "",
                        err |-> NilDereference]
                  ELSE [op |-> "RoomVersion", u |-> u,
                        version |-> RoomInfoRoomVersion(updaters[u].roomInfo),
                        err |-> "nil"]
    /\ UNCHANGED <<rooms, roomInfoCache, rowLock, pending, updaters, eventVars>>

\* Events(ctx, _, eventNIDs): refused without a RoomInfo, else what
\* d.events(ctx, u.txn, u.roomInfo.RoomVersion, eventNIDs) returns
Events(u, eventNIDs, readFails) ==
    /\ updaters[u].state = "open"
    /\ updCall' = IF updaters[u].roomInfo = NilRoomInfo
                  THEN [op |-> "Events", u |-> u, eventNIDs |-> eventNIDs, read |-> FALSE,
                        events |-> <<>>, err |-> "ErrorInvalidRoomInfo"]
                  ELSE IF readFails
                  THEN [op |-> "Events", u |-> u, eventNIDs |-> eventNIDs, read |-> TRUE,
                        events |-> <<>>, err |-> "error"]
                  ELSE [op |-> "Events", u |-> u, eventNIDs |-> eventNIDs, read |-> TRUE,
                        events |-> [i \in 1..Len(eventNIDs) |-> SelectEventID(eventNIDs[i])],
                        err |-> "nil"]
    /\ UNCHANGED <<rooms, roomInfoCache, rowLock, pending, updaters, eventVars>>

\* MembershipUpdater(targetUserNID, targetLocal):
\* u.d.membershipUpdaterTxn(u.ctx, u.txn, u.roomInfo.RoomNID, ...)
MembershipUpdater(u, targetLocal, makeFails) ==
    /\ updaters[u].state = "open"
    /\ updCall' = IF updaters[u].roomInfo = NilRoomInfo
                  THEN [op |-> "MembershipUpdater", u |-> u, roomNID |-> NilRoomInfo,
                        targetLocal |-> targetLocal, err |-> NilDereference]
                  ELSE [op |-> "MembershipUpdater", u |-> u,
                        roomNID |-> updaters[u].roomInfo, targetLocal |-> targetLocal,
                        err |-> IF makeFails THEN "error" ELSE "nil"]
    /\ UNCHANGED <<rooms, roomInfoCache, rowLock, pending, updaters, eventVars>>

(***************************************************************************)
(* roomserver_state_snapshots: the content-addressed state snapshots.      *)
(***************************************************************************)
\* the state block NIDs a snapshot can refer to
StateBlockNIDs == {1, 2}

\* the []types.StateBlockNID values a caller can pass: any order, repeats
\* allowed (a nil slice is turned into the empty one before it is used)
StateBlockNIDLists == UNION {[1..n -> StateBlockNIDs] : n \in 0..MaxBlockLen}

\* a Go slice: nil, or a list of entries (that can be empty)
NilSlice == [isNil |-> TRUE, items |-> <<>>]
Slice(list) == [isNil |-> FALSE, items |-> list]
StateBlockNIDSlices == {NilSlice} \cup {Slice(list) : list \in StateBlockNIDLists}

\* sort: the list with x put at its place in the sorted list sorted
RECURSIVE SortedInsert(_, _)
SortedInsert(x, sorted) ==
    IF sorted = <<>> THEN <<x>>
    ELSE IF x <= Head(sorted) THEN <<x>> \o sorted
    ELSE <<Head(sorted)>> \o SortedInsert(x, Tail(sorted))

RECURSIVE Sort(_)
Sort(list) == IF list = <<>> THEN <<>> ELSE SortedInsert(Head(list), Sort(Tail(list)))

\* unique: a sorted list without its repeated entries
RECURSIVE Unique(_)
Unique(sorted) ==
    IF Len(sorted) <= 1 THEN sorted
    ELSE IF sorted[1] = sorted[2] THEN Unique(Tail(sorted))
    ELSE <<sorted[1]>> \o Unique(Tail(sorted))

\* the list sorted with its repeated entries kept
SortKeepingRepeats(stateBlockNIDs) == Sort(stateBlockNIDs)

\* stateBlockNIDs[:util.SortAndUnique(stateBlockNIDs)]
SortAndUnique(stateBlockNIDs) == Unique(Sort(stateBlockNIDs))

\* types.StateBlockNIDs.Hash: a digest of the list as it stands, entry by
\* entry; two lists have one digest exactly when they are the same list
Hash(stateBlockNIDs) == <<"sha256", stateBlockNIDs>>

\* json.Marshal of a list of NIDs, and json.Unmarshal of the stored text
MarshalJSON(list) == [json |-> "array", items |-> list]
\* json.Marshal of a slice: a nil slice encodes as null
MarshalSlice(slice) ==
    IF slice.isNil THEN [json |-> "null", items |-> <<>>] ELSE MarshalJSON(slice.items)
UnmarshalJSON(text) == text.items

\* the statement without its ON CONFLICT clause target: every call adds a row
insertStateAlwaysSQL(rows, seq, hash, roomNID, blocksJSON) ==
    [rows |-> rows \cup {[state_snapshot_nid |-> seq + 1, state_snapshot_hash |-> hash,
                          room_nid |-> roomNID, state_block_nids |-> blocksJSON]},
     seq |-> seq + 1, nid |-> seq + 1]

\* insertStateSQL: INSERT ... ON CONFLICT (state_snapshot_hash) DO UPDATE SET
\* room_nid=$2 RETURNING state_snapshot_nid
insertStateSQL(rows, seq, hash, roomNID, blocksJSON) ==
    IF \E r \in rows : r.state_snapshot_hash = hash
    THEN LET old == CHOOSE r \in rows : r.state_snapshot_hash = hash
         IN [rows |-> (rows \ {old}) \cup {[old EXCEPT !.room_nid = roomNID]},
             seq |-> seq, nid |-> old.state_snapshot_nid]
    ELSE [rows |-> rows \cup {[state_snapshot_nid |-> seq + 1, state_snapshot_hash |-> hash,
                               room_nid |-> roomNID, state_block_nids |-> blocksJSON]},
          seq |-> seq + 1, nid |-> seq + 1]

\* the set of block NIDs a list carries
BlockSet(list) == {list[i] : i \in 1..Len(list)}

\* InsertState(ctx, txn, roomNID, stateBlockNIDs), its statement committed
InsertState(roomNID, stateBlockNIDs) ==
    LET \* zero slice to not store 'null' in the DB
        nonNil == IF stateBlockNIDs.isNil THEN Slice(<<>>) ELSE stateBlockNIDs
        sorted == Slice(SortAndUnique(nonNil.items))
        done == insertStateSQL(stateSnapshots, snapshotSeq, Hash(sorted.items), roomNID,
                               MarshalSlice(sorted))
    IN /\ snapCall.op = "none"
       /\ done.seq <= MaxStateNID
       /\ stateSnapshots' = done.rows
       /\ snapshotSeq' = done.seq
       /\ insertedStates' = insertedStates \cup
                               {[blocks |-> BlockSet(stateBlockNIDs.items),
                                 stateNID |-> done.nid]}
       /\ snapCall' = [op |-> "InsertState", roomNID |-> roomNID,
                       stateBlockNIDs |-> stateBlockNIDs.items,
                       wasNil |-> stateBlockNIDs.isNil, stateNID |-> done.nid,
                       before |-> stateSnapshots, err |-> "nil"]

\* selectStateBlockNIDsForRoomNID: the block NIDs of the snapshots recorded
\* for the room, each entry with the snapshot it comes from (the statement
\* has no ORDER BY)
selectStateBlockNIDsForRoomNID(rows, roomNID) ==
    UNION {{[state_snapshot_nid |-> r.state_snapshot_nid, state_block_nid |-> b] :
               b \in BlockSet(UnmarshalJSON(r.state_block_nids))} :
             r \in {x \in rows : x.room_nid = roomNID}}

\* the snapshot NIDs a BulkSelectStateBlockNIDs caller can pass
StateNIDLists == UNION {[1..n -> 1..MaxStateNID] : n \in 0..MaxRequest}

\* ORDER BY state_snapshot_nid ASC
RECURSIVE OrderByStateSnapshotNID(_)
OrderByStateSnapshotNID(rows) ==
    IF rows = {} THEN <<>>
    ELSE LET first == CHOOSE r \in rows :
                         \A o \in rows : r.state_snapshot_nid <= o.state_snapshot_nid
         IN <<first>> \o OrderByStateSnapshotNID(rows \ {first})

\* bulkSelectStateBlockNIDsSQL: ... WHERE state_snapshot_nid IN ($1) ORDER BY
\* state_snapshot_nid ASC
bulkSelectStateBlockNIDsSQL(rows, nids) ==
    OrderByStateSnapshotNID({r \in rows :
        \E k \in 1..Len(nids) : r.state_snapshot_nid = nids[k]})

\* BulkSelectStateBlockNIDs(ctx, txn, stateNIDs): one result per row read, and
\* a MissingStateError when the rows read are not as many as the NIDs asked for
BulkSelectStateBlockNIDs(stateNIDs) ==
    LET rows == bulkSelectStateBlockNIDsSQL(stateSnapshots, stateNIDs)
        results == [i \in 1..Len(rows) |->
                       [StateSnapshotNID |-> rows[i].state_snapshot_nid,
                        StateBlockNIDs |-> UnmarshalJSON(rows[i].state_block_nids)]]
    IN /\ snapCall.op = "none"
       /\ snapCall' = IF Len(rows) # Len(stateNIDs)
                      THEN [op |-> "BulkSelectStateBlockNIDs", stateNIDs |-> stateNIDs,
                            results |-> <<>>, before |-> stateSnapshots,
                            err |-> "MissingStateError"]
                      ELSE [op |-> "BulkSelectStateBlockNIDs", stateNIDs |-> stateNIDs,
                            results |-> results, before |-> stateSnapshots, err |-> "nil"]
       /\ UNCHANGED <<stateSnapshots, snapshotSeq, insertedStates>>

\* the caller takes the result
SnapshotReturn ==
    /\ snapCall.op # "none"
    /\ snapCall' = NoCall
    /\ UNCHANGED <<stateSnapshots, snapshotSeq, insertedStates>>

(***************************************************************************)
(* roomserver_invites: the invites of the roomserver.                      *)
(***************************************************************************)
\* the orders in which the elements of S can come: the iteration of a Go map
\* with these keys, the rows of a SELECT without ORDER BY
Orders(S) == {o \in [1..Cardinality(S) -> S] : \A a \in S : \E i \in DOMAIN o : o[i] = a}

\* the elements of a list
ToSet(list) == {list[i] : i \in DOMAIN list}

\* the invite events, and the users (event state key NIDs) they name
InviteEventIDs == {"$i1", "$i2", "$i3"}
TargetNIDs == {1, 2}
SenderNIDs == {3}

\* a row of roomserver_invites; the event JSON is the event ID's
InviteRow(inviteEventID, roomNID, targetNID, senderNID, retired) ==
    [invite_event_id |-> inviteEventID, room_nid |-> roomNID, target_nid |-> targetNID,
     sender_nid |-> senderNID, retired |-> retired]

\* the rows a statement with "WHERE room_nid = $1 AND target_nid = $2 AND NOT
\* retired" works on
ActiveInvites(rows, roomNID, targetNID) ==
    {row \in rows : row.room_nid = roomNID /\ row.target_nid = targetNID /\ ~row.retired}

\* an insert that replaces the row stored under the event ID
insertOrReplaceInviteEventSQL(rows, row) ==
    {old \in rows : old.invite_event_id # row.invite_event_id} \cup {row}

\* insertInviteEventSQL: INSERT ... ON CONFLICT DO NOTHING; invite_event_id is
\* the primary key, retired defaults to FALSE
insertInviteEventSQL(rows, row) ==
    IF \E old \in rows : old.invite_event_id = row.invite_event_id
    THEN rows
    ELSE rows \cup {row}

\* result.RowsAffected() of an insert
RowsAffected(rows, inserted) == IF inserted = rows THEN 0 ELSE 1

\* InsertInviteEvent(ctx, txn, inviteEventID, roomNID, targetUserNID,
\* senderUserNID, inviteEventJSON)
InsertInviteEvent(inviteEventID, roomNID, targetUserNID, senderUserNID, execFails) ==
    LET row == InviteRow(inviteEventID, roomNID, targetUserNID, senderUserNID, FALSE)
        inserted == insertInviteEventSQL(invites, row)
        count == RowsAffected(invites, inserted)
    IN IF execFails
       THEN /\ UNCHANGED invites
            /\ inviteCall' = [op |-> "InsertInviteEvent", inviteEventID |-> inviteEventID,
                              roomNID |-> roomNID, targetUserNID |-> targetUserNID,
                              ret |-> FALSE, err |-> "error"]
       ELSE /\ invites' = inserted
            /\ inviteCall' = [op |-> "InsertInviteEvent", inviteEventID |-> inviteEventID,
                              roomNID |-> roomNID, targetUserNID |-> targetUserNID,
                              ret |-> count # 0, err |-> "nil"]

\* selectInvitesAboutToRetireSQL
selectInvitesAboutToRetireSQL(rows, roomNID, targetNID) ==
    {row.invite_event_id : row \in ActiveInvites(rows, roomNID, targetNID)}

\* an update that retires the active invites of the user in every room
updateInviteRetiredAnyRoomSQL(rows, roomNID, targetNID) ==
    {IF row.target_nid = targetNID /\ ~row.retired
     THEN [row EXCEPT !.retired = TRUE] ELSE row : row \in rows}

\* updateInviteRetiredSQL
updateInviteRetiredSQL(rows, roomNID, targetNID) ==
    {IF row \in ActiveInvites(rows, roomNID, targetNID)
     THEN [row EXCEPT !.retired = TRUE] ELSE row : row \in rows}

\* where an UpdateInviteRetired call can fail
RetireFailures == {"none", "select", "update"}

\* UpdateInviteRetired(ctx, txn, roomNID, targetUserNID): the rows of the
\* SELECT come in an order the statement does not fix. eventIDs is a named
\* result: what was gathered is returned also when the UPDATE fails.
UpdateInviteRetired(roomNID, targetUserNID, failure) ==
    \E order \in Orders(selectInvitesAboutToRetireSQL(invites, roomNID, targetUserNID)) :
       IF failure = "select"
       THEN /\ UNCHANGED invites
            /\ inviteCall' = [op |-> "UpdateInviteRetired", roomNID |-> roomNID,
                              targetUserNID |-> targetUserNID, eventIDs |-> <<>>,
                              err |-> "error"]
       ELSE IF failure = "update"
       THEN /\ UNCHANGED invites
            /\ inviteCall' = [op |-> "UpdateInviteRetired", roomNID |-> roomNID,
                              targetUserNID |-> targetUserNID, eventIDs |-> order,
                              err |-> "error"]
       ELSE /\ invites' = updateInviteRetiredSQL(invites, roomNID, targetUserNID)
            /\ inviteCall' = [op |-> "UpdateInviteRetired", roomNID |-> roomNID,
                              targetUserNID |-> targetUserNID, eventIDs |-> order,
                              err |-> "nil"]

\* selectInviteActiveForUserInRoomSQL
selectInviteActiveForUserInRoomSQL(rows, targetNID, roomNID) ==
    {row \in rows : row.target_nid = targetNID /\ row.room_nid = roomNID /\ ~row.retired}

\* SelectInviteActiveForUserInRoom(ctx, txn, targetUserNID, roomNID): the
\* sender NIDs and event IDs of the rows in the order they come, and the event
\* JSON of the last row
SelectInviteActiveForUserInRoom(targetUserNID, roomNID, queryFails) ==
    \E order \in Orders(selectInviteActiveForUserInRoomSQL(invites, targetUserNID, roomNID)) :
    /\ inviteCall' =
          IF queryFails
          THEN [op |-> "SelectInviteActiveForUserInRoom", roomNID |-> roomNID,
                targetUserNID |-> targetUserNID, result |-> <<>>, eventIDs |-> <<>>,
                eventJSON |-> "", err |-> "error"]
          ELSE [op |-> "SelectInviteActiveForUserInRoom", roomNID |-> roomNID,
                targetUserNID |-> targetUserNID,
                result |-> [i \in DOMAIN order |-> order[i].sender_nid],
                eventIDs |-> [i \in DOMAIN order |-> order[i].invite_event_id],
                eventJSON |-> IF order = <<>> THEN ""
                              ELSE order[Len(order)].invite_event_id,
                err |-> "nil"]
    /\ UNCHANGED invites

(***************************************************************************)
(* keyserver_key_changes: the latest key change of every user.             *)
(***************************************************************************)
\* the rows left when the rows that conflict on UNIQUE (user_id) are replaced
WithoutUser(rows, userID) == {row \in rows : row.user_id # userID}

\* the greatest change_id of the rows, 0 for an empty table
MaxChangeIDOf(rows) ==
    IF rows = {} THEN 0
    ELSE CHOOSE n \in {row.change_id : row \in rows} : \A row \in rows : row.change_id <= n

\* an upsert on a table whose change_id is a plain INTEGER PRIMARY KEY: the new
\* row takes the greatest change_id left in the table plus one
upsertKeyChangeNoAutoincrementSQL(rows, seq, userID) ==
    LET changeID == MaxChangeIDOf(WithoutUser(rows, userID)) + 1
    IN [rows |-> WithoutUser(rows, userID) \cup {[change_id |-> changeID, user_id |-> userID]},
        seq |-> seq, change_id |-> changeID]

\* upsertKeyChangeSQL: INSERT OR REPLACE ... RETURNING change_id. The user's row
\* is replaced; change_id is AUTOINCREMENT, one more than the greatest change_id
\* the table ever held.
upsertKeyChangeSQL(rows, seq, userID) ==
    LET changeID == seq + 1
    IN [rows |-> WithoutUser(rows, userID) \cup {[change_id |-> changeID, user_id |-> userID]},
        seq |-> changeID, change_id |-> changeID]

\* InsertKeyChange(ctx, userID)
InsertKeyChange(userID, queryFails) ==
    LET upserted == upsertKeyChangeSQL(keyChanges, keyChangeSeq, userID)
    IN IF queryFails
       THEN /\ keyChangeCall' = [op |-> "InsertKeyChange", userID |-> userID, changeID |-> 0,
                                 err |-> "error"]
            /\ UNCHANGED <<keyChanges, keyChangeSeq, keyChangeReturned>>
       ELSE /\ Len(keyChangeReturned) < MaxKeyChanges
            /\ keyChanges' = upserted.rows
            /\ keyChangeSeq' = upserted.seq
            /\ keyChangeReturned' =
                  Append(keyChangeReturned, [userID |-> userID, changeID |-> upserted.change_id])
            /\ keyChangeCall' = [op |-> "InsertKeyChange", userID |-> userID,
                                 changeID |-> upserted.change_id, err |-> "nil"]

\* selectKeyChangesSQL
selectKeyChangesSQL(rows, fromOffset, toOffset) ==
    {row \in rows : row.change_id > fromOffset /\ row.change_id <= toOffset}

\* SelectKeyChanges(ctx, fromOffset, toOffset): the users changed in the range
\* and the greatest change ID seen, at least fromOffset
SelectKeyChanges(fromOffset, toOffset, queryFails) ==
    \E order \in Orders(selectKeyChangesSQL(keyChanges, fromOffset, toOffset)) :
       /\ keyChangeCall' =
             IF queryFails
             THEN [op |-> "SelectKeyChanges", fromOffset |-> fromOffset, toOffset |-> toOffset,
                   userIDs |-> <<>>, latestOffset |-> 0, err |-> "error"]
             ELSE [op |-> "SelectKeyChanges", fromOffset |-> fromOffset, toOffset |-> toOffset,
                   userIDs |-> [i \in DOMAIN order |-> order[i].user_id],
                   latestOffset |->
                       IF MaxChangeIDOf(ToSet(order)) > fromOffset
                       THEN MaxChangeIDOf(ToSet(order)) ELSE fromOffset,
                   err |-> "nil"]
       /\ UNCHANGED <<keyChanges, keyChangeSeq, keyChangeReturned>>

(***************************************************************************)
(* The client API's SendToDevice handler.                                  *)
(***************************************************************************)
\* the requests of a run, each a goroutine of the HTTP server
ClientRequests == 1..MaxClientRequests
\* the (device.AccessToken, *txnID, req.URL) keys of the requests
TxnKeys == {"k1", "k2"}
\* the (user, device) entries of httpReq.Messages; a request that is sent again
\* has the same body
DeviceMessages == 1..MaxDeviceMessages

\* a request that has not arrived
NewRequest == [pc |-> "new"]

\* txnCache.FetchTransaction(accessToken, txnID, url): the stored response
FetchTransaction(key) ==
    IF key \in txnCache THEN [res |-> 200, ok |-> TRUE] ELSE [res |-> 0, ok |-> FALSE]

\* txnCache.AddTransaction(accessToken, txnID, url, &res)
AddTransaction(key) == txnCache \cup {key}

\* a request that has returned
Returned(key, code, stored, sent) ==
    [pc |-> "returned", key |-> key, code |-> code, stored |-> stored, sent |-> sent]

\* SendToDevice up to the loop over httpReq.Messages: the stored response is
\* returned when the cache has one, a body that does not parse is refused
SendToDeviceBegin(r, key, parseFails) ==
    /\ clientReq[r] = NewRequest
    /\ clientReq' = [clientReq EXCEPT ![r] =
          IF FetchTransaction(key).ok THEN Returned(key, FetchTransaction(key).res, TRUE, {})
          ELSE IF parseFails THEN Returned(key, 400, FALSE, {})
          ELSE [pc |-> "sending", key |-> key, left |-> DeviceMessages, sent |-> {}]]
    /\ UNCHANGED <<txnCache, handed>>

\* one pass of the loop: the next entry, in the map's iteration order, is
\* handed to syncProducer.SendToDevice; its error ends the request with 500
SendToDeviceProduce(r, message, produceFails) ==
    /\ clientReq[r].pc = "sending"
    /\ message \in clientReq[r].left
    /\ handed' = [handed EXCEPT ![clientReq[r].key][message] = @ + 1]
    /\ clientReq' = [clientReq EXCEPT ![r] =
          IF produceFails
          THEN Returned(clientReq[r].key, 500, FALSE, clientReq[r].sent \cup {message})
          ELSE [@ EXCEPT !.left = @ \ {message}, !.sent = @ \cup {message}]]
    /\ UNCHANGED txnCache

\* SendToDevice after the loop: the 200 response is stored and returned
SendToDeviceFinish(r) ==
    /\ clientReq[r].pc = "sending"
    /\ clientReq[r].left = {}
    /\ txnCache' = AddTransaction(clientReq[r].key)
    /\ clientReq' = [clientReq EXCEPT ![r] =
          Returned(clientReq[r].key, 200, FALSE, clientReq[r].sent)]
    /\ UNCHANGED handed

(***************************************************************************)
(* SyncAPIProducer.SendToDevice: the producer of send-to-device messages.  *)
(***************************************************************************)
\* the device IDs of a user's devices, in the order QueryDevices returns them
DeviceIDs == <<"d1", "d2", "d3", "d4">>
DeviceLists == {[i \in 1..n |-> DeviceIDs[i]] : n \in 0..MaxDevices}

\* what p.JetStream.PublishMsg returns for each device
PublishOutcomes(devices) == [DOMAIN devices -> {"nil", "error"}]

\* the devices the message goes to: the local user's devices for the wildcard,
\* else the device ID as it is
ExpandDevices(userID, deviceID, userDevices) ==
    IF isLocalServerName(SplitID("@", userID).domain) /\ deviceID = "*"
    THEN userDevices
    ELSE <<deviceID>>

\* what the loop over the devices did up to device i
LoopResult(err, attempted, delivered) ==
    [err |-> err, attempted |-> attempted, delivered |-> delivered]

\* the loop of SendToDevice from device i on: a failed PublishMsg is skipped
\* unless it is the last device's, whose error is returned
RECURSIVE PublishToDevices(_, _, _, _, _, _)
PublishToDevices(devices, marshalFails, outcomes, i, attempted, delivered) ==
    IF i > Len(devices) THEN LoopResult("nil", attempted, delivered)
    ELSE IF marshalFails THEN LoopResult("json.Marshal", attempted, delivered)
    ELSE IF outcomes[i] = "error"
    THEN IF i < Len(devices)
         THEN PublishToDevices(devices, marshalFails, outcomes, i + 1,
                               Append(attempted, devices[i]), delivered)
         ELSE LoopResult("PublishMsg", Append(attempted, devices[i]), delivered)
    ELSE PublishToDevices(devices, marshalFails, outcomes, i + 1,
                          Append(attempted, devices[i]), Append(delivered, devices[i]))

\* SyncAPIProducer.SendToDevice(ctx, sender, userID, deviceID, eventType, message)
SyncAPIProducer_SendToDevice(userID, deviceID, userDevices, queryFails, marshalFails, outcomes) ==
    IF SplitID("@", userID).err # "nil"
    THEN [reached |-> FALSE, devices |-> <<>>] @@ LoopResult("SplitID", <<>>, <<>>)
    ELSE IF /\ isLocalServerName(SplitID("@", userID).domain)
            /\ deviceID = "*"
            /\ queryFails
    THEN [reached |-> FALSE, devices |-> <<>>] @@ LoopResult("QueryDevices", <<>>, <<>>)
    ELSE LET devices == ExpandDevices(userID, deviceID, userDevices)
         IN [reached |-> TRUE, devices |-> devices]
               @@ PublishToDevices(devices, marshalFails, outcomes, 1, <<>>, <<>>)

\* the producer is asked to send a message; what it publishes is on the topic
ProducerSendToDevice(userID, deviceID, userDevices, queryFails, marshalFails, outcomes) ==
    LET sent == SyncAPIProducer_SendToDevice(userID, deviceID, userDevices, queryFails,
                                             marshalFails, outcomes)
    IN /\ sendToDeviceTopic' = sendToDeviceTopic \cup
             {[UserID |-> userID, DeviceID |-> sent.delivered[i]] :
                 i \in DOMAIN sent.delivered}
       /\ producerCall' = [op |-> "SendToDevice", userID |-> userID, deviceID |-> deviceID,
                           devices |-> sent.devices, reached |-> sent.reached,
                           marshalFails |-> marshalFails,
                           outcomes |-> [i \in DOMAIN sent.devices |-> outcomes[i]],
                           attempted |-> sent.attempted, delivered |-> sent.delivered,
                           err |-> sent.err]

(***************************************************************************)
(* keyserver_one_time_keys: the one-time keys of the devices.              *)
(***************************************************************************)
\* the user, the devices and the algorithms of the keys
OneTimeKeyUser == "@alice:a"
OneTimeKeyDevices == {"d1", "d2"}
Algorithms == {"curve25519", "signed_curve25519"}
\* the (device, algorithm) pairs keys are uploaded and claimed for
KeyOwners ==
    {<<"d1", "curve25519">>, <<"d1", "signed_curve25519">>, <<"d2", "signed_curve25519">>}
\* the goroutines that call SelectAndDeleteOneTimeKey
Claimers == {1, 2}
NoClaim == [pc |-> "idle"]

\* the key IDs of the keys a device makes: every key has an ID of its own
KeyIDs == 1..MaxOneTimeKeys

\* the calls that have read the table inside a transaction see it written by another connection
Written(calls, rows, newRows) ==
    [c \in DOMAIN calls |->
        IF calls[c].pc = "selected" /\ calls[c].txn /\ newRows # rows
        THEN [calls[c] EXCEPT !.written = TRUE]
        ELSE calls[c]]

\* upsertKeysSQL: INSERT ... ON CONFLICT (user_id, device_id, key_id, algorithm)
\* DO UPDATE SET key_json = $6
upsertKeysSQL(rows, userID, deviceID, keyID, algorithm, now, keyJSON) ==
    LET conflict == {row \in rows : /\ row.user_id = userID
                                    /\ row.device_id = deviceID
                                    /\ row.key_id = keyID
                                    /\ row.algorithm = algorithm}
    IN IF conflict # {}
       THEN (rows \ conflict) \cup {[row EXCEPT !.key_json = keyJSON] : row \in conflict}
       ELSE rows \cup {[user_id |-> userID, device_id |-> deviceID, key_id |-> keyID,
                        algorithm |-> algorithm, ts_added_secs |-> now,
                        key_json |-> keyJSON]}

\* InsertOneTimeKeys(ctx, txn, keys) with one key: a key the device has just
\* made, or one it has made before and uploads again while it is stored
InsertOneTimeKeys(deviceID, algorithm, keyID, execFails) ==
    /\ \/ keyID = otkUploaded + 1
       \/ \E row \in oneTimeKeys :
             /\ row.key_id = keyID
             /\ row.device_id = deviceID
             /\ row.algorithm = algorithm
    /\ IF execFails
       THEN /\ UNCHANGED <<oneTimeKeys, otkUploaded, claims>>
            /\ otkCall' = [op |-> "InsertOneTimeKeys", err |-> "error"]
       ELSE LET upserted == upsertKeysSQL(oneTimeKeys, OneTimeKeyUser, deviceID, keyID,
                                          algorithm, otkNow, <<"json", keyID>>)
            IN /\ oneTimeKeys' = upserted
               /\ claims' = Written(claims, oneTimeKeys, upserted)
               /\ otkUploaded' = IF keyID > otkUploaded THEN keyID ELSE otkUploaded
               /\ otkCall' = [op |-> "InsertOneTimeKeys", err |-> "nil"]
    /\ UNCHANGED <<otkNow, otkReturned>>

\* a second passes
Tick ==
    /\ otkNow < MaxNow
    /\ otkNow' = otkNow + 1
    /\ UNCHANGED <<oneTimeKeys, otkUploaded, claims, otkReturned, otkCall>>

\* the rows of WHERE user_id = $1 AND device_id = $2 AND algorithm = $3
KeysByAlgorithm(rows, userID, deviceID, algorithm) ==
    {row \in rows : /\ row.user_id = userID
                    /\ row.device_id = deviceID
                    /\ row.algorithm = algorithm}

\* a select that takes the key added last
selectKeyByAlgorithmNewestSQL(rows, userID, deviceID, algorithm) ==
    LET matching == KeysByAlgorithm(rows, userID, deviceID, algorithm)
    IN {row \in matching : \A other \in matching : other.ts_added_secs <= row.ts_added_secs}

\* selectKeyByAlgorithmSQL: ... ORDER BY ts_added_secs ASC LIMIT 1. The rows
\* the statement can return: one of those added first.
selectKeyByAlgorithmSQL(rows, userID, deviceID, algorithm) ==
    LET matching == KeysByAlgorithm(rows, userID, deviceID, algorithm)
    IN {row \in matching : \A other \in matching : row.ts_added_secs <= other.ts_added_secs}

\* deleteOneTimeKeySQL
deleteOneTimeKeySQL(rows, userID, deviceID, algorithm, keyID) ==
    {row \in rows : ~(/\ row.user_id = userID
                      /\ row.device_id = deviceID
                      /\ row.algorithm = algorithm
                      /\ row.key_id = keyID)}

\* what a SelectAndDeleteOneTimeKey call with that txn returned: the map of the keys, the error
ClaimResult(hasTxn, keys, err) ==
    [op |-> "SelectAndDeleteOneTimeKey", txn |-> hasTxn, keys |-> keys, err |-> err]

\* SelectAndDeleteOneTimeKey up to the Scan of the selected row: no row gives
\* nil, nil; another error is returned
SelectAndDeleteOneTimeKeySelect(c, hasTxn, deviceID, algorithm, queryFails) ==
    LET selected == selectKeyByAlgorithmSQL(oneTimeKeys, OneTimeKeyUser, deviceID, algorithm)
    IN /\ claims[c] = NoClaim
       /\ IF queryFails
          THEN /\ otkCall' = ClaimResult(hasTxn, {}, "error")
               /\ UNCHANGED claims
          ELSE IF selected = {}
          THEN \* sql.ErrNoRows
               /\ otkCall' = ClaimResult(hasTxn, {}, "nil")
               /\ UNCHANGED claims
          ELSE /\ \E row \in selected :
                     claims' = [claims EXCEPT ![c] =
                        [pc |-> "selected", txn |-> hasTxn, deviceID |-> deviceID,
                         algorithm |-> algorithm, keyID |-> row.key_id,
                         keyJSON |-> row.key_json, written |-> FALSE]]
               /\ otkCall' = NoCall
       /\ UNCHANGED <<oneTimeKeys, otkNow, otkUploaded, otkReturned>>

\* SelectAndDeleteOneTimeKey from the DELETE on. Inside a transaction the
\* DELETE fails when another connection has written the table since the
\* transaction read it; without one the DELETE runs on its own, and the number
\* of rows it deleted is not looked at.
SelectAndDeleteOneTimeKeyDelete(c, execFails) ==
    LET call == claims[c]
        deleted == deleteOneTimeKeySQL(oneTimeKeys, OneTimeKeyUser, call.deviceID,
                                       call.algorithm, call.keyID)
    IN /\ call.pc = "selected"
       /\ IF execFails \/ call.written
          THEN /\ otkCall' = ClaimResult(call.txn, {}, "error")
               /\ claims' = [claims EXCEPT ![c] = NoClaim]
               /\ UNCHANGED <<oneTimeKeys, otkReturned>>
          ELSE /\ oneTimeKeys' = deleted
               /\ claims' = [Written(claims, oneTimeKeys, deleted) EXCEPT ![c] = NoClaim]
               /\ IF call.keyJSON = ""
                  THEN /\ otkCall' = ClaimResult(call.txn, {}, "nil")
                       /\ UNCHANGED otkReturned
                  ELSE /\ otkCall' = ClaimResult(call.txn, {<<call.algorithm, call.keyID>>}, "nil")
                       /\ otkReturned' = otkReturned \cup {call.keyID}
       /\ UNCHANGED <<otkNow, otkUploaded>>

(***************************************************************************)
(* The full-text re-index run of the client data consumer.                 *)
(***************************************************************************)
ReIndexPositions == 1..MaxReIndexPos
NoReIndex == [pc |-> "idle", id |-> 0, offset |-> 0, count |-> 0]

\* an event is written to the output events table; its stream position is
\* above those of the stored ones. hasText: it is an m.room.message, m.room.name
\* or m.room.topic event whose body, name or topic is not blank.
StoreEvent(streamPos, hasText) ==
    /\ reindex.pc # "running"
    /\ \A ev \in ftsEvents : ev.streamPos < streamPos
    /\ ftsEvents' = ftsEvents \cup {[streamPos |-> streamPos, hasText |-> hasText]}
    /\ UNCHANGED <<reindex, ftsRead, ftsIndexed>>

\* s.db.ReIndex(ctx, limit, afterID): the limit events with the lowest stream
\* positions above afterID
ReIndex(events, limit, afterID) ==
    {ev \in events :
        /\ ev.streamPos > afterID
        /\ Cardinality({other \in events : /\ other.streamPos > afterID
                                           /\ other.streamPos < ev.streamPos}) < limit}

\* the callback of the re-index subject up to the loop
StartReIndex(ackFails, enabled) ==
    /\ reindex.pc # "running"
    /\ IF ackFails \/ ~enabled
       THEN reindex' = [NoReIndex EXCEPT !.pc = "returned"]
       ELSE reindex' = [NoReIndex EXCEPT !.pc = "running"]
    /\ ftsRead' = {}
    /\ UNCHANGED <<ftsEvents, ftsIndexed>>

\* a cursor that stays when the indexer fails
CursorAfterIndexed(id, evs, indexFails) ==
    IF indexFails THEN {id} ELSE {ev.streamPos : ev \in evs}

\* id after `for streamPos, ev := range evs { id = streamPos ...`: the key of
\* the map the range yields last, which can be any
CursorAfterRange(id, evs, indexFails) ==
    {ev.streamPos : ev \in evs}

\* one iteration of the loop
ReIndexIteration(reIndexFails, indexFails) ==
    LET evs == ReIndex(ftsEvents, ReIndexLimit, reindex.id)
        elements == {ev.streamPos : ev \in {e \in evs : e.hasText}}
    IN /\ reindex.pc = "running"
       /\ IF reIndexFails
          THEN /\ reindex' = [reindex EXCEPT !.pc = "failed"]
               /\ UNCHANGED <<ftsRead, ftsIndexed>>
          ELSE IF evs = {}
          THEN /\ reindex' = [reindex EXCEPT !.pc = "finished"]
               /\ UNCHANGED <<ftsRead, ftsIndexed>>
          ELSE /\ ftsRead' = ftsRead \cup {ev.streamPos : ev \in evs}
               /\ \E id \in CursorAfterRange(reindex.id, evs, indexFails) :
                     IF indexFails
                     THEN /\ reindex' = [reindex EXCEPT !.id = id]
                          /\ UNCHANGED ftsIndexed
                     ELSE /\ reindex' = [reindex EXCEPT !.id = id,
                                            !.offset = @ + Cardinality(evs),
                                            !.count = @ + Cardinality(elements)]
                          /\ ftsIndexed' = ftsIndexed \cup elements
       /\ UNCHANGED ftsEvents

(***************************************************************************)
(* Initial state and specifications.                                       *)
(***************************************************************************)
Init ==
    /\ streamID = streamIDTableSchema
    /\ txStreamID = streamIDTableSchema
    /\ writer = NoTxn
    /\ txnOpen = {}
    /\ returned = [s \in StreamNames |-> <<>>]
    /\ topology = {}
    /\ topoCall = NoCall
    /\ msgQueue = <<>>
    /\ published = 0
    /\ accountData = {}
    /\ ignores = {}
    /\ adStream = 0
    /\ notifierPos = 0
    /\ notified = {}
    /\ consCall = NoCall
    /\ rooms = [r \in RoomNIDs |-> StubRoom]
    /\ roomInfoCache = [r \in RoomNIDs |-> [StateSnapshotNID |-> 0, IsStub |-> TRUE]]
    /\ rowLock = [r \in RoomNIDs |-> NoUpdater]
    /\ pending = [u \in Updaters |-> [r \in RoomNIDs |-> NoRow]]
    /\ updaters = [u \in Updaters |-> UnusedUpdater]
    /\ updCall = NoCall
    /\ stateSnapshots = {}
    /\ snapshotSeq = 0
    /\ insertedStates = {}
    /\ snapCall = NoCall
    /\ sentToOutput = {}
    /\ pendingSent = [u \in Updaters |-> {}]
    /\ previousEvents = {}
    /\ deviceListStream = 0
    /\ keyNotifierPos = 0
    /\ queuedEDUs = {}
    /\ typingData = [r \in RoomIDs |-> [userSet |-> {}, syncPosition |-> 0]]
    /\ latestSyncPosition = 0
    /\ typingCall = NoCall
    /\ invites = {}
    /\ inviteCall = NoCall
    /\ keyChanges = {}
    /\ keyChangeSeq = 0
    /\ keyChangeReturned = <<>>
    /\ keyChangeCall = NoCall
    /\ txnCache = {}
    /\ clientReq = [r \in ClientRequests |-> NewRequest]
    /\ handed = [k \in TxnKeys |-> [m \in DeviceMessages |-> 0]]
    /\ sendToDeviceTopic = {}
    /\ producerCall = NoCall
    /\ oneTimeKeys = {}
    /\ otkNow = 1
    /\ otkUploaded = 0
    /\ claims = [c \in Claimers |-> NoClaim]
    /\ otkReturned = {}
    /\ otkCall = NoCall
    /\ ftsEvents = {}
    /\ reindex = NoReIndex
    /\ ftsRead = {}
    /\ ftsIndexed = {}

NextStream ==
    \/ \E t \in Txns : BeginTxn(t) /\ UNCHANGED <<topoVars, consumerVars, updaterVars, restVars>>
    \/ \E t \in Txns \cup {NoTxn} : nextPDUID(t) /\ UNCHANGED <<topoVars, consumerVars, updaterVars, restVars>>
    \/ \E t \in Txns \cup {NoTxn} : nextReceiptID(t) /\ UNCHANGED <<topoVars, consumerVars, updaterVars, restVars>>
    \/ \E t \in Txns \cup {NoTxn} : nextInviteID(t) /\ UNCHANGED <<topoVars, consumerVars, updaterVars, restVars>>
    \/ \E t \in Txns \cup {NoTxn} : nextAccountDataID(t) /\ UNCHANGED <<topoVars, consumerVars, updaterVars, restVars>>
    \/ \E t \in Txns \cup {NoTxn} : nextPresenceID(t) /\ UNCHANGED <<topoVars, consumerVars, updaterVars, restVars>>
    \/ \E t \in Txns \cup {NoTxn} : nextNotificationID(t) /\ UNCHANGED <<topoVars, consumerVars, updaterVars, restVars>>
    \/ \E t \in Txns \cup {NoTxn} : nextRelationID(t) /\ UNCHANGED <<topoVars, consumerVars, updaterVars, restVars>>
    \/ \E t \in Txns : CommitTxn(t) /\ UNCHANGED <<topoVars, consumerVars, updaterVars, restVars>>
    \/ \E t \in Txns : RollbackTxn(t) /\ UNCHANGED <<topoVars, consumerVars, updaterVars, restVars>>

SpecStream == Init /\ [][NextStream]_vars

NextTopology ==
    \/ \E e \in EventIDs, pos \in 1..MaxStreamPos :
          InsertEventInTopology(e, pos) /\ UNCHANGED <<streamVars, consumerVars, updaterVars, restVars>>
    \/ \E r \in RoomIDs : PurgeEventsTopology(r) /\ UNCHANGED <<streamVars, consumerVars, updaterVars, restVars>>
    \* a range runs from minDepth up to maxDepth
    \/ \E r \in RoomIDs, minDepth \in 0..MaxDepth :
       \E maxDepth \in minDepth..MaxDepth,
          maxStreamPos \in 0..MaxStreamPos, limit \in {1, MaxLimit}, chrono \in BOOLEAN :
          /\ SelectEventIDsInRange(r, minDepth, maxDepth, maxStreamPos, limit, chrono)
          /\ UNCHANGED <<streamVars, consumerVars, updaterVars, restVars>>
    \/ ReturnToCaller /\ UNCHANGED <<streamVars, consumerVars, updaterVars, restVars>>

SpecTopology == Init /\ [][NextTopology]_vars

\* the topology table with the conversion of stream positions
NextTopologyPosition ==
    \/ \E e \in EventIDs, pos \in 1..MaxStreamPos :
          /\ InsertEventInTopology(e, pos)
          /\ UNCHANGED <<streamVars, consumerVars, updaterVars, restVars>>
    \/ \E r \in RoomIDs :
          /\ PurgeEventsTopology(r)
          /\ UNCHANGED <<streamVars, consumerVars, updaterVars, restVars>>
    \/ \E r \in RoomIDs, streamPos \in 0..(MaxStreamPos + 1), backward \in BOOLEAN :
          /\ SelectStreamToTopologicalPosition(r, streamPos, backward)
          /\ UNCHANGED <<streamVars, consumerVars, updaterVars, restVars>>
    \/ ReturnToCaller /\ UNCHANGED <<streamVars, consumerVars, updaterVars, restVars>>

SpecTopologyPosition == Init /\ [][NextTopologyPosition]_vars

NextConsumer ==
    \/ \E m \in Messages : Publish(m) /\ UNCHANGED <<streamVars, topoVars, updaterVars, restVars>>
    \/ \E outcome \in UpsertOutcomes, ignoresStored \in BOOLEAN :
          onMessage(outcome, ignoresStored) /\ UNCHANGED <<topoVars, updaterVars, restVars>>
    \/ \E stoppedBefore \in StopPoints, ignoresStored \in BOOLEAN :
          /\ onMessageStopped(stoppedBefore, ignoresStored)
          /\ UNCHANGED <<topoVars, updaterVars, restVars>>

SpecConsumer == Init /\ [][NextConsumer]_vars

\* the two key-change consumers, each given any message of the topic
NextKeyChange ==
    \/ \E m \in KeyMessages, sharedUsers \in SUBSET {RemoteUserID}, queryFails \in BOOLEAN :
          /\ SyncKeyChange(m, sharedUsers, queryFails)
          /\ UNCHANGED <<streamVars, topoVars, updaterVars, snapVars, eventVars, typingVars, moreVars>>
    \/ \E m \in KeyMessages, destinations \in SUBSET {"b"}, failure \in FederationFailures :
          /\ FederationKeyChange(m, destinations, failure)
          /\ UNCHANGED <<streamVars, topoVars, updaterVars, snapVars, eventVars, typingVars, moreVars>>

SpecKeyChange == Init /\ [][NextKeyChange]_vars

\* The three consumers side by side. The key-change consumers are given the
\* payload that does not parse and the device-key and cross-signing updates
\* of the local user with the first change ID.
FirstKeyMessages ==
    {m \in KeyMessages :
        m.parses => /\ m.UserID = LocalUserID
                    /\ m.DeviceChangeID = 1
                    /\ (m.DeviceKeys = "set") # (m.OutputCrossSigningKeyUpdate = "set")
                    /\ (m.Type = "TypeDeviceKeyUpdate") = (m.DeviceKeys = "set")}

\* The client-data topic is given the payload that does not parse and the
\* global account data of one user that carries no ignore list.
FirstMessages ==
    {m \in Messages :
        m.parses => /\ m.userID = "@alice:a"
                    /\ m.RoomID = ""
                    /\ m.IgnoredUsers = "nil"}

NextConsumers ==
    \/ \E m \in FirstMessages :
          Publish(m) /\ UNCHANGED <<streamVars, topoVars, updaterVars, restVars>>
    \/ \E outcome \in UpsertOutcomes :
          onMessage(outcome, FALSE) /\ UNCHANGED <<topoVars, updaterVars, restVars>>
    \/ \E m \in FirstKeyMessages, queryFails \in BOOLEAN :
          /\ SyncKeyChange(m, {}, queryFails)
          /\ UNCHANGED <<streamVars, topoVars, updaterVars, snapVars, eventVars, typingVars, moreVars>>
    \/ \E m \in FirstKeyMessages, failure \in {"none", "SendEDU"} :
          /\ FederationKeyChange(m, {"b"}, failure)
          /\ UNCHANGED <<streamVars, topoVars, updaterVars, snapVars, eventVars, typingVars, moreVars>>

SpecConsumers == Init /\ [][NextConsumers]_vars

NextUpdater ==
    \/ \E u \in Updaters, hasTxn \in BOOLEAN, roomInfo \in RoomNIDs \cup {NilRoomInfo},
          loadFails \in BOOLEAN :
          /\ NewRoomUpdater(u, hasTxn, roomInfo, loadFails)
          /\ UNCHANGED <<streamVars, topoVars, consumerVars, restVars>>
    \/ \E u \in Updaters, roomNID \in RoomNIDs, latest \in LatestLists,
          lastEventNIDSent \in {0, MaxEventNID},
          currentStateSnapshotNID \in {0, MaxSnapshotNID}, updateFails \in BOOLEAN :
          /\ SetLatestEvents(u, roomNID, latest, lastEventNIDSent,
                             currentStateSnapshotNID, updateFails)
          /\ UNCHANGED <<streamVars, topoVars, consumerVars, restVars>>
    \/ \E u \in Updaters, txnResult \in TxnResults :
          Commit(u, txnResult) /\ UNCHANGED <<streamVars, topoVars, consumerVars, snapVars, keyVars, typingVars, moreVars>>
    \/ \E u \in Updaters, txnResult \in TxnResults :
          Rollback(u, txnResult) /\ UNCHANGED <<streamVars, topoVars, consumerVars, snapVars, keyVars, typingVars, moreVars>>

SpecUpdater == Init /\ [][NextUpdater]_vars

\* the RoomUpdater of a room that does not exist yet or of room 1, used to
\* mark events as sent and to look up references
NextEvents ==
    \/ \E u \in Updaters, hasTxn \in BOOLEAN, roomInfo \in {NilRoomInfo, 1} :
          /\ NewRoomUpdater(u, hasTxn, roomInfo, FALSE)
          /\ UNCHANGED <<streamVars, topoVars, consumerVars, restVars>>
    \/ \E u \in Updaters, eventNID \in EventNIDs, updateFails \in BOOLEAN :
          /\ MarkEventAsSent(u, eventNID, updateFails)
          /\ UNCHANGED <<streamVars, topoVars, consumerVars, snapVars, keyVars, typingVars, moreVars>>
    \/ \E u \in Updaters, eventNID \in EventNIDs, readFails \in BOOLEAN :
          /\ HasEventBeenSent(u, eventNID, readFails)
          /\ UNCHANGED <<streamVars, topoVars, consumerVars, snapVars, keyVars, typingVars, moreVars>>
    \/ \E previousEventID \in PrevEventIDs, eventNID \in EventNIDs :
          /\ InsertPreviousEvent(previousEventID, eventNID)
          /\ UNCHANGED <<streamVars, topoVars, consumerVars, snapVars, keyVars, typingVars, moreVars>>
    \/ \E u \in Updaters, eventID \in PrevEventIDs, lookupFails \in BOOLEAN :
          /\ IsReferenced(u, eventID, lookupFails)
          /\ UNCHANGED <<streamVars, topoVars, consumerVars, snapVars, keyVars, typingVars, moreVars>>
    \/ \E u \in Updaters, txnResult \in TxnResults :
          Commit(u, txnResult) /\ UNCHANGED <<streamVars, topoVars, consumerVars, snapVars, keyVars, typingVars, moreVars>>
    \/ \E u \in Updaters, txnResult \in TxnResults :
          Rollback(u, txnResult) /\ UNCHANGED <<streamVars, topoVars, consumerVars, snapVars, keyVars, typingVars, moreVars>>

SpecEvents == Init /\ [][NextEvents]_vars

\* the RoomUpdater of a room that does not exist yet or of an existing room,
\* with the methods that read its RoomInfo
NextUpdaterMethods ==
    \/ \E u \in Updaters, hasTxn \in BOOLEAN, roomInfo \in RoomNIDs \cup {NilRoomInfo} :
          /\ NewRoomUpdater(u, hasTxn, roomInfo, FALSE)
          /\ UNCHANGED <<streamVars, topoVars, consumerVars, restVars>>
    \/ \E u \in Updaters :
          /\ RoomVersion(u)
          /\ UNCHANGED <<streamVars, topoVars, consumerVars, snapVars, keyVars, typingVars, moreVars>>
    \/ \E u \in Updaters, eventNIDs \in LatestLists, readFails \in BOOLEAN :
          /\ Events(u, eventNIDs, readFails)
          /\ UNCHANGED <<streamVars, topoVars, consumerVars, snapVars, keyVars, typingVars, moreVars>>
    \/ \E u \in Updaters, targetLocal \in BOOLEAN, makeFails \in BOOLEAN :
          /\ MembershipUpdater(u, targetLocal, makeFails)
          /\ UNCHANGED <<streamVars, topoVars, consumerVars, snapVars, keyVars, typingVars, moreVars>>
    \* the latest events are set to all the events, with or without a last-sent one
    \/ \E u \in Updaters, roomNID \in RoomNIDs, lastEventNIDSent \in {0, MaxEventNID} :
          /\ SetLatestEvents(u, roomNID, [i \in 1..MaxEventNID |-> i], lastEventNIDSent,
                             MaxSnapshotNID, FALSE)
          /\ UNCHANGED <<streamVars, topoVars, consumerVars, restVars>>
    \/ \E u \in Updaters :
          Commit(u, "nil") /\ UNCHANGED <<streamVars, topoVars, consumerVars, snapVars, keyVars, typingVars, moreVars>>

SpecUpdaterMethods == Init /\ [][NextUpdaterMethods]_vars

NextSnapshot ==
    \/ \E roomNID \in RoomNIDs, stateBlockNIDs \in StateBlockNIDSlices :
          /\ InsertState(roomNID, stateBlockNIDs)
          /\ UNCHANGED <<streamVars, topoVars, consumerVars, updaterVars, eventVars, keyVars,
                         typingVars, moreVars>>
    \/ \E stateNIDs \in StateNIDLists :
          /\ BulkSelectStateBlockNIDs(stateNIDs)
          /\ UNCHANGED <<streamVars, topoVars, consumerVars, updaterVars, eventVars, keyVars,
                         typingVars, moreVars>>
    \/ SnapshotReturn /\ UNCHANGED <<streamVars, topoVars, consumerVars, updaterVars, eventVars, keyVars,
                         typingVars, moreVars>>

SpecSnapshot == Init /\ [][NextSnapshot]_vars

\* the invites table
NextInvites ==
    \/ \E inviteEventID \in InviteEventIDs, roomNID \in RoomNIDs, targetUserNID \in TargetNIDs,
          senderUserNID \in SenderNIDs, execFails \in BOOLEAN :
          /\ InsertInviteEvent(inviteEventID, roomNID, targetUserNID, senderUserNID, execFails)
          /\ UNCHANGED exceptInvites
    \/ \E roomNID \in RoomNIDs, targetUserNID \in TargetNIDs, failure \in RetireFailures :
          /\ UpdateInviteRetired(roomNID, targetUserNID, failure)
          /\ UNCHANGED exceptInvites
    \/ \E roomNID \in RoomNIDs, targetUserNID \in TargetNIDs, queryFails \in BOOLEAN :
          /\ SelectInviteActiveForUserInRoom(targetUserNID, roomNID, queryFails)
          /\ UNCHANGED exceptInvites

SpecInvites == Init /\ [][NextInvites]_vars

\* the key changes table
NextKeyChangesTable ==
    \/ \E userID \in KeyUserIDs, queryFails \in BOOLEAN :
          /\ InsertKeyChange(userID, queryFails)
          /\ UNCHANGED exceptKeyChanges
    \/ \E fromOffset \in 0..MaxKeyChanges, queryFails \in BOOLEAN :
          \E toOffset \in fromOffset..MaxKeyChanges :
             /\ SelectKeyChanges(fromOffset, toOffset, queryFails)
             /\ UNCHANGED exceptKeyChanges

SpecKeyChangesTable == Init /\ [][NextKeyChangesTable]_vars

\* the requests to the client API's SendToDevice, running side by side
NextClient ==
    \/ \E r \in ClientRequests, key \in TxnKeys, parseFails \in BOOLEAN :
          /\ SendToDeviceBegin(r, key, parseFails)
          /\ UNCHANGED exceptClient
    \/ \E r \in ClientRequests, message \in DeviceMessages, produceFails \in BOOLEAN :
          /\ SendToDeviceProduce(r, message, produceFails)
          /\ UNCHANGED exceptClient
    \/ \E r \in ClientRequests :
          /\ SendToDeviceFinish(r)
          /\ UNCHANGED exceptClient

SpecClient == Init /\ [][NextClient]_vars

\* the producer of send-to-device messages
NextProducer ==
    \/ \E userID \in {LocalUserID, RemoteUserID, <<"alice">>}, deviceID \in {"*", "d1"},
          userDevices \in DeviceLists, queryFails \in BOOLEAN, marshalFails \in BOOLEAN :
          \E outcomes \in PublishOutcomes(ExpandDevices(userID, deviceID, userDevices)) :
             /\ ProducerSendToDevice(userID, deviceID, userDevices, queryFails,
                                     marshalFails, outcomes)
             /\ UNCHANGED exceptProducer

SpecProducer == Init /\ [][NextProducer]_vars

\* the one-time keys table with callers that claim keys side by side
NextOneTimeKeys ==
    \/ \E owner \in KeyOwners, keyID \in KeyIDs, execFails \in BOOLEAN :
          /\ InsertOneTimeKeys(owner[1], owner[2], keyID, execFails)
          /\ UNCHANGED exceptOneTimeKeys
    \/ Tick /\ UNCHANGED exceptOneTimeKeys
    \/ \E c \in Claimers, hasTxn \in BOOLEAN, owner \in KeyOwners, queryFails \in BOOLEAN :
          /\ SelectAndDeleteOneTimeKeySelect(c, hasTxn, owner[1], owner[2], queryFails)
          /\ UNCHANGED exceptOneTimeKeys
    \/ \E c \in Claimers, execFails \in BOOLEAN :
          /\ SelectAndDeleteOneTimeKeyDelete(c, execFails)
          /\ UNCHANGED exceptOneTimeKeys

SpecOneTimeKeys == Init /\ [][NextOneTimeKeys]_vars

\* the full-text re-index runs over the stored events
NextReIndex ==
    \/ \E streamPos \in ReIndexPositions, hasText \in BOOLEAN :
          /\ StoreEvent(streamPos, hasText)
          /\ UNCHANGED exceptReIndex
    \/ \E ackFails \in BOOLEAN, enabled \in BOOLEAN :
          /\ StartReIndex(ackFails, enabled)
          /\ UNCHANGED exceptReIndex
    \/ \E reIndexFails \in BOOLEAN, indexFails \in BOOLEAN :
          /\ ReIndexIteration(reIndexFails, indexFails)
          /\ UNCHANGED exceptReIndex

SpecReIndex == Init /\ [][NextReIndex]_vars

\* the callback runs on: a run in progress takes its next iteration
ReIndexRuns ==
    \E reIndexFails \in BOOLEAN, indexFails \in BOOLEAN :
       /\ ReIndexIteration(reIndexFails, indexFails)
       /\ UNCHANGED exceptReIndex

SpecReIndexFair == SpecReIndex /\ WF_vars(ReIndexRuns)

(***************************************************************************)
(* The stream position allocator: claims C1 and C2.                        *)
(***************************************************************************)
\* C1: for each stream name, every call that advances the stream's counter
\* returns a value strictly greater than every value returned earlier for the
\* same stream (so the positions returned for one stream are pairwise
\* distinct).
C1_ReturnedStrictlyIncreasing ==
    \A s \in StreamNames :
        \A i, j \in 1..Len(returned[s]) :
            i < j => returned[s][i] < returned[s][j]

\* C2: the persisted counter of a stream never decreases, and a position once
\* returned by an advance of the stream is not returned by a later advance of
\* it, also when the transaction that allocated the position was aborted.
C2_NeverDecreasesNeverReused ==
    [][\A s \in StreamNames :
          /\ streamID'[s] >= streamID[s]
          /\ Len(returned'[s]) > Len(returned[s]) =>
                \A i \in 1..Len(returned[s]) :
                    returned[s][i] # returned'[s][Len(returned'[s])]]_vars

(***************************************************************************)
(* The account-data consumer: claim C3.                                    *)
(***************************************************************************)
\* a committed row of the account data table carries position p
DataWrittenAt(p) == \E r \in accountData : r.id = p

\* C3: the stream provider is advanced to a position p and the notifier is
\* told p only if UpsertAccountData returned p without error; when
\* UpsertAccountData fails neither is advanced, so no reader is told of a
\* position whose data was not written.
C3_OnlyWrittenPositionsAnnounced ==
    /\ adStream # 0 => DataWrittenAt(adStream)
    /\ notifierPos # 0 => DataWrittenAt(notifierPos)
    /\ adStream <= streamID["accountdata"]
    /\ notifierPos <= streamID["accountdata"]
    /\ (consCall.op = "onMessage" /\ consCall.err # "nil") =>
          /\ adStream = consCall.before.adStream
          /\ notifierPos = consCall.before.notifierPos
          /\ notified = consCall.before.notified
    /\ (consCall.op = "onMessage" /\ consCall.err = "nil") =>
          /\ adStream = consCall.streamPos
          /\ [userID |-> consCall.msg.userID, pos |-> consCall.streamPos] \in notified

\* C3 happens: UpsertAccountData failed after a position above the announced
\* one had been allocated, and an earlier message had been announced
C3_Witness ==
    /\ consCall.op = "onMessage"
    /\ consCall.err = "error"
    /\ consCall.streamPos > adStream
    /\ adStream > 0

(***************************************************************************)
(* The RoomUpdater: claims C4 and C5.                                      *)
(***************************************************************************)
\* C4: SetLatestEvents returns an error and writes nothing (the room rows,
\* committed or written in the transaction, and the cached RoomInfo stay as
\* they were) whenever the latest list is empty, or the snapshot NID is 0, or
\* the last-sent event NID is 0.
C4_RejectedSetLatestEventsWritesNothing ==
    [][(/\ updCall'.op = "SetLatestEvents"
        /\ \/ Len(updCall'.latest) = 0
           \/ updCall'.currentStateSnapshotNID = 0
           \/ updCall'.lastEventNIDSent = 0)
       => /\ updCall'.err = "error"
          /\ rooms' = rooms
          /\ pending' = pending
          /\ roomInfoCache' = roomInfoCache]_vars

\* C4 happens: a call with a zero last-sent event NID and otherwise valid
\* arguments was refused for a room that has a stored frontier
C4_Witness ==
    /\ updCall.op = "SetLatestEvents"
    /\ Len(updCall.latest) > 0
    /\ updCall.currentStateSnapshotNID # 0
    /\ updCall.lastEventNIDSent = 0
    /\ updCall.err = "error"
    /\ rooms[updCall.roomNID] # StubRoom

IsOpenFor(u, roomNID) ==
    /\ updaters[u].state = "open"
    /\ updaters[u].roomExists
    /\ updaters[u].roomInfo = roomNID

\* C5: two RoomUpdaters for the same existing room are never both open
\* (between construction and commit or rollback) at the same time.
C5_OneOpenUpdaterPerRoom ==
    \A u1, u2 \in Updaters :
        \A r \in RoomNIDs :
            (IsOpenFor(u1, r) /\ IsOpenFor(u2, r)) => u1 = u2

(***************************************************************************)
(* The topology index: claims C6 to C10.                                   *)
(***************************************************************************)
IsInsert == topoCall.op = "InsertEventInTopology"
IsSelect == topoCall.op = "SelectEventIDsInRange"

\* the row an event had when the last InsertEventInTopology was called
RowBefore(e) == {r \in topoCall.before : r.event_id = e}

\* C6: InsertEventInTopology for an event ID that already has a topology row
\* returns no error, adds no row and leaves the event's stored (room,
\* topological position, stream position) unchanged, also when the call
\* carries another stream position.
C6_ReinsertIsNoOp ==
    (IsInsert /\ RowBefore(topoCall.event) # {}) =>
        /\ topoCall.err = "nil"
        /\ topology = topoCall.before

\* C6 happens: an event was inserted again with a stream position other than
\* the stored one
C6_Witness ==
    /\ IsInsert
    /\ \E r \in RowBefore(topoCall.event) : r.stream_position # topoCall.pos

TokenLess(a, b) ==
    \/ a.Depth < b.Depth
    \/ a.Depth = b.Depth /\ a.PDUPosition < b.PDUPosition

\* C7: in a chronological result an event of lower depth, or of equal depth
\* and lower stream position, comes before the other; a non-chronological
\* result is in the reverse order (depth descending, then stream position
\* descending).
C7_RangeOrder ==
    IsSelect =>
        \A i, j \in 1..Len(topoCall.tokens) :
            IF topoCall.chronologicalOrder
            THEN TokenLess(topoCall.tokens[i], topoCall.tokens[j]) => i < j
            ELSE TokenLess(topoCall.tokens[j], topoCall.tokens[i]) => i < j

\* C7 happens: a chronological result of three events, two of them at the
\* same depth with the later-inserted stream position deciding their order
C7_Witness ==
    /\ IsSelect
    /\ topoCall.chronologicalOrder
    /\ topoCall.eventIDs = <<"$M1b", "$M1", "$join">>

\* the room of the scenario holds create (depth 0), M1 (1), join (2), M2 (3)
ScenarioRoom ==
    {r.event_id : r \in {x \in topology : x.room_id = "!r:a"}}
        = {"$create", "$M1", "$join", "$M2"}

\* the stream-position argument excludes no row of the table in the query's direction
NoStreamConstraint ==
    \A r \in topology :
        IF topoCall.chronologicalOrder
        THEN r.stream_position >= topoCall.maxStreamPos
        ELSE r.stream_position <= topoCall.maxStreamPos

ScenarioQuery(minDepth, maxDepth, chrono) ==
    /\ IsSelect
    /\ ScenarioRoom
    /\ topoCall.room = "!r:a"
    /\ topoCall.minDepth = minDepth
    /\ topoCall.maxDepth = maxDepth
    /\ topoCall.chronologicalOrder = chrono
    /\ topoCall.limit >= 3
    /\ NoStreamConstraint

\* C8 as stated: the query with minDepth 1 and maxDepth 3 returns
\* [M1, join, M2] chronologically and [M2, join, M1] descending.
C8_ScenarioAsStated ==
    /\ ScenarioQuery(1, 3, TRUE) => topoCall.eventIDs = <<"$M1", "$join", "$M2">>
    /\ ScenarioQuery(1, 3, FALSE) => topoCall.eventIDs = <<"$M2", "$join", "$M1">>

\* C8 amended: the lower bound is exclusive. The query with minDepth 0 and
\* maxDepth 3 returns [M1, join, M2] chronologically and [M2, join, M1]
\* descending; the query with minDepth 1 leaves M1 out.
C8_ScenarioExclusiveLowerBound ==
    /\ ScenarioQuery(0, 3, TRUE) => topoCall.eventIDs = <<"$M1", "$join", "$M2">>
    /\ ScenarioQuery(0, 3, FALSE) => topoCall.eventIDs = <<"$M2", "$join", "$M1">>
    /\ ScenarioQuery(1, 3, TRUE) => topoCall.eventIDs = <<"$join", "$M2">>
    /\ ScenarioQuery(1, 3, FALSE) => topoCall.eventIDs = <<"$M2", "$join">>

\* C8 happens: the chronological query of the scenario with minDepth 0
C8_Witness == ScenarioQuery(0, 3, TRUE)

\* the rows of the room that the range of the last query selects
MatchingRows ==
    {r \in topology :
        /\ r.room_id = topoCall.room
        /\ \/ /\ r.topological_position > topoCall.minDepth
              /\ r.topological_position < topoCall.maxDepth
           \/ /\ r.topological_position = topoCall.maxDepth
              /\ IF topoCall.chronologicalOrder
                 THEN r.stream_position >= topoCall.maxStreamPos
                 ELSE r.stream_position <= topoCall.maxStreamPos}

\* C9: when no event of the room matches the range, SelectEventIDsInRange
\* returns no error, an empty list of event IDs that is not nil, and
\* zero-valued start and end tokens.
C9_EmptyMatchIsEmptyNotNil ==
    (IsSelect /\ MatchingRows = {}) =>
        /\ topoCall.err = "nil"
        /\ topoCall.eventIDs = <<>>
        /\ ~topoCall.eventIDsIsNil
        /\ topoCall.start = ZeroToken
        /\ topoCall.end = ZeroToken

\* C10: no two rows of the topology table share (topological position, room,
\* stream position) and no event ID has more than one row.
C10_TopologyRowsUnique ==
    \A r1, r2 \in topology :
        r1 # r2 =>
            /\ r1.event_id # r2.event_id
            /\ \/ r1.topological_position # r2.topological_position
               \/ r1.room_id # r2.room_id
               \/ r1.stream_position # r2.stream_position

\* C10 happens: an insert of a new event ID was refused because another event
\* of the room already holds its (topological position, stream position)
C10_Witness ==
    /\ IsInsert
    /\ RowBefore(topoCall.event) = {}
    /\ \E r \in topoCall.before :
          /\ r.topological_position = EventDepth(topoCall.event)
          /\ r.room_id = EventRoomID(topoCall.event)
          /\ r.stream_position = topoCall.pos

(***************************************************************************)
(* The state snapshot table: claims C11 and C12.                           *)
(***************************************************************************)
\* C11: InsertState returns the same snapshot NID for two calls exactly when
\* the two calls carry the same set of state block NIDs (in any order, with
\* or without repeated entries): identical sets map to one snapshot row and
\* different sets never share a snapshot NID.
C11_SameSetSameSnapshot ==
    /\ \A a, b \in insertedStates : (a.stateNID = b.stateNID) <=> (a.blocks = b.blocks)
    /\ \A a \in insertedStates :
          Cardinality({r \in stateSnapshots :
              BlockSet(UnmarshalJSON(r.state_block_nids)) = a.blocks}) = 1
    /\ \A a \in insertedStates :
          \E r \in stateSnapshots :
              /\ r.state_snapshot_nid = a.stateNID
              /\ BlockSet(UnmarshalJSON(r.state_block_nids)) = a.blocks

\* C11 happens: a call whose list is out of order and repeats an entry was
\* given the NID of a row stored earlier, while a row of another set exists
C11_Witness ==
    /\ snapCall.op = "InsertState"
    /\ snapCall.stateBlockNIDs = <<2, 1, 2>>
    /\ \E r \in snapCall.before : r.state_snapshot_nid = snapCall.stateNID
    /\ \E r \in stateSnapshots : r.state_snapshot_nid # snapCall.stateNID

\* a row with this snapshot NID was stored when the call was made
StoredBefore(stateNID) == \E r \in snapCall.before : r.state_snapshot_nid = stateNID

\* C12: BulkSelectStateBlockNIDs returns a MissingStateError and no results
\* when at least one requested snapshot NID has no stored row; when every
\* requested NID is stored it succeeds and returns exactly one block-NID list
\* per requested NID, ordered by ascending snapshot NID; in both cases it
\* writes nothing.
C12_MissingStateExactlyWhenMissing ==
    snapCall.op = "BulkSelectStateBlockNIDs" =>
        LET req == snapCall.stateNIDs
            res == snapCall.results
            allStored == \A k \in 1..Len(req) : StoredBefore(req[k])
        IN /\ stateSnapshots = snapCall.before
           /\ ~allStored => (snapCall.err = "MissingStateError" /\ res = <<>>)
           /\ allStored =>
                 /\ snapCall.err = "nil"
                 /\ Len(res) = Len(req)
                 /\ \A k \in 1..Len(req) :
                       \E i \in 1..Len(res) : res[i].StateSnapshotNID = req[k]
                 /\ \A i \in 1..Len(res) :
                       \E r \in snapCall.before :
                           /\ r.state_snapshot_nid = res[i].StateSnapshotNID
                           /\ UnmarshalJSON(r.state_block_nids) = res[i].StateBlockNIDs
                 /\ \A i, j \in 1..Len(res) :
                       i < j => res[i].StateSnapshotNID < res[j].StateSnapshotNID

(***************************************************************************)
(* The RoomUpdater: claims C13 to C16.                                     *)
(***************************************************************************)
\* the event NIDs marked as sent in some transaction that is still open
MarkedInOpenTxn == UNION {pendingSent[u] : u \in Updaters}

\* C13: once MarkEventAsSent(e) has been committed, HasEventBeenSent(e)
\* returns true in every later state (the sent flag is never cleared),
\* HasEventBeenSent is false for an event never marked, and marking an
\* already-marked event changes nothing.
C13_SentFlagIsKept ==
    [][/\ sentToOutput \subseteq sentToOutput'
       /\ (updCall'.op = "HasEventBeenSent" /\ updCall'.err = "nil") =>
             /\ updCall'.eventNID \in sentToOutput => updCall'.sent
             /\ updCall'.eventNID \notin (sentToOutput \cup MarkedInOpenTxn) => ~updCall'.sent
       /\ (updCall'.op = "MarkEventAsSent" /\ updCall'.eventNID \in sentToOutput) =>
             /\ sentToOutput' = sentToOutput
             /\ sentToOutput' \cup pendingSent'[updCall'.u] = SentAsSeenBy(updCall'.u)]_vars

\* C13 happens: an updater with a transaction of its own, which has marked
\* nothing, asks about an event marked and committed earlier and is told true
C13_Witness ==
    /\ updCall.op = "HasEventBeenSent"
    /\ updCall.err = "nil"
    /\ updCall.sent
    /\ updaters[updCall.u].txn
    /\ pendingSent[updCall.u] = {}
    /\ updCall.eventNID \in sentToOutput

\* C14: IsReferenced(eventID) returns (true, nil) exactly when eventID has
\* been recorded as a previous event by some InsertPreviousEvent, returns
\* (false, nil) when it has not (the lookup then fails with sql.ErrNoRows),
\* and returns an error only for other storage failures.
C14_IsReferencedExactlyWhenRecorded ==
    updCall.op = "IsReferenced" =>
        /\ (updCall.referenced /\ updCall.err = "nil") <=>
              (updCall.lookup # "error" /\ updCall.eventID \in previousEvents)
        /\ (~updCall.referenced /\ updCall.err = "nil") <=>
              (updCall.lookup = "sql.ErrNoRows" /\ updCall.eventID \notin previousEvents)
        /\ updCall.err # "nil" <=> updCall.lookup = "error"

\* C14 happens: a lookup of an event nobody refers to answered (false, nil)
\* while another event is referred to
C14_Witness ==
    /\ updCall.op = "IsReferenced"
    /\ updCall.lookup = "sql.ErrNoRows"
    /\ ~updCall.referenced
    /\ updCall.err = "nil"
    /\ previousEvents # {}

\* C15: NewRoomUpdater called with a nil RoomInfo takes no row lock and
\* returns, without error, an updater with RoomExists() = false, no latest
\* events, an empty last-sent event ID and snapshot NID 0; the call never
\* waits for a row lock, whoever holds the locks.
C15_NilRoomInfoUpdaterIsEmpty ==
    /\ (updCall.op = "NewRoomUpdater" /\ updCall.roomInfo = NilRoomInfo) =>
          /\ updCall.err = "nil"
          /\ updaters[updCall.u] =
                [state |-> "open", txn |-> updCall.txn, roomInfo |-> NilRoomInfo,
                 latestEvents |-> <<>>, lastEventIDSent |-> "",
                 currentStateSnapshotNID |-> 0, roomExists |-> FALSE]
          /\ \A r \in RoomNIDs : rowLock[r] # updCall.u
    /\ \A u \in Updaters :
          updaters[u].state = "none" =>
              ENABLED NewRoomUpdater(u, TRUE, NilRoomInfo, FALSE)

\* C15 happens: an updater for a room that does not exist yet was made inside
\* a transaction while another updater held the lock of a room row
C15_Witness ==
    /\ updCall.op = "NewRoomUpdater"
    /\ updCall.roomInfo = NilRoomInfo
    /\ updCall.txn
    /\ updaters[updCall.u].state = "open"
    /\ \E r \in RoomNIDs : rowLock[r] \notin {NoUpdater, updCall.u}

\* C16: Commit and Rollback of a RoomUpdater whose transaction is nil return
\* nil and change no state; with a non-nil transaction they return exactly
\* the result of the transaction's Commit or Rollback.
C16_NilTxnCommitRollbackAreNoOps ==
    [][(updCall'.op \in {"Commit", "Rollback"} /\ updaters[updCall'.u].state = "open") =>
          IF updaters[updCall'.u].txn
          THEN updCall'.err = updCall'.txnResult
          ELSE /\ updCall'.err = "nil"
               /\ UNCHANGED <<rooms, roomInfoCache, rowLock, pending, eventVars>>]_vars

\* C16 happens: an updater without a transaction that had set the latest
\* events of its room was rolled back, and the room row stayed as written
C16_Witness ==
    /\ updCall.op = "Rollback"
    /\ ~updCall.txn
    /\ updCall.err = "nil"
    /\ \E r \in RoomNIDs : rooms[r] # StubRoom

(***************************************************************************)
(* The typing stream provider of the sync API and the typing cache it      *)
(* reads.                                                                  *)
(***************************************************************************)
TypingUsers == {"@alice:a", "@bob:a"}
Memberships == {"join", "leave"}
MTyping == "m.typing"

\* EDUCache.AddTypingUser(userID, roomID, expire): the user is typing in the
\* room; the room's data takes the cache's next sync position
AddTypingUser(userID, roomID) ==
    /\ latestSyncPosition < MaxTypingPos
    /\ latestSyncPosition' = latestSyncPosition + 1
    /\ typingData' = [typingData EXCEPT ![roomID] =
                         [userSet |-> @.userSet \cup {userID},
                          syncPosition |-> latestSyncPosition + 1]]
    /\ typingCall' = NoCall

\* EDUCache.RemoveUser(userID, roomID): a user who was typing in the room no
\* longer is; removing a user who was not typing changes nothing
RemoveUser(userID, roomID) ==
    /\ latestSyncPosition < MaxTypingPos
    /\ IF userID \in typingData[roomID].userSet
       THEN /\ latestSyncPosition' = latestSyncPosition + 1
            /\ typingData' = [typingData EXCEPT ![roomID] =
                                 [userSet |-> @.userSet \ {userID},
                                  syncPosition |-> latestSyncPosition + 1]]
       ELSE UNCHANGED <<typingData, latestSyncPosition>>
    /\ typingCall' = NoCall

\* EDUCache.GetTypingUsersIfUpdatedAfter(roomID, position), the users listed
\* in the iteration order of the room's user set
GetTypingUsersIfUpdatedAfter(roomID, position, order) ==
    IF typingData[roomID].syncPosition > position
    THEN [users |-> order, updated |-> TRUE]
    ELSE [users |-> <<>>, updated |-> FALSE]

\* the users of the list that the request does not ignore, in the list's order
RECURSIVE SkipIgnored(_, _)
SkipIgnored(users, ignored) ==
    IF users = <<>> THEN <<>>
    ELSE IF Head(users) \in ignored
         THEN SkipIgnored(Tail(users), ignored)
         ELSE <<Head(users)>> \o SkipIgnored(Tail(users), ignored)

\* json.Marshal of {"user_ids": typingUsers}: a list of strings always encodes
MarshalUserIDs(typingUsers) == [Content |-> [user_ids |-> typingUsers], err |-> "nil"]

NewJoinResponse == [Ephemeral |-> <<>>]

\* the body of IncrementalSync's loop for one room of the request
SyncRoom(req, join, roomID, from, order) ==
    IF req.Rooms[roomID] # "join"
    THEN [join |-> join, err |-> "nil"]
    ELSE LET jr == IF roomID \in DOMAIN join THEN join[roomID] ELSE NewJoinResponse
             got == GetTypingUsersIfUpdatedAfter(roomID, from, order)
             marshalled == MarshalUserIDs(SkipIgnored(got.users, req.IgnoredUsers))
             ev == [Type |-> MTyping, Content |-> marshalled.Content]
         IN IF ~got.updated
            THEN [join |-> join, err |-> "nil"]
            ELSE IF marshalled.err # "nil"
                 THEN [join |-> join, err |-> marshalled.err]
                 ELSE [join |-> [r \in DOMAIN join \cup {roomID} |->
                                    IF r = roomID
                                    THEN [Ephemeral |-> Append(jr.Ephemeral, ev)]
                                    ELSE join[r]],
                       err |-> "nil"]

\* the loop over req.Rooms, the rooms taken in the order roomOrder
RECURSIVE SyncRooms(_, _, _, _, _)
SyncRooms(req, join, roomOrder, from, orders) ==
    IF roomOrder = <<>> THEN [join |-> join, err |-> "nil"]
    ELSE LET one == SyncRoom(req, join, Head(roomOrder), from, orders[Head(roomOrder)])
         IN IF one.err # "nil" THEN one
            ELSE SyncRooms(req, one.join, Tail(roomOrder), from, orders)

\* IncrementalSync asking the cache for the updates after `to`
TypingStreamProvider_IncrementalSyncUpdatedAfterTo(req, from, to, roomOrder, orders) ==
    LET done == SyncRooms(req, req.Join, roomOrder, to, orders)
    IN [Join |-> done.join,
        pos |-> IF done.err # "nil" THEN from ELSE to]

\* IncrementalSync answering `from` when nothing was added to the response
TypingStreamProvider_IncrementalSyncFromWhenUnchanged(req, from, to, roomOrder, orders) ==
    LET done == SyncRooms(req, req.Join, roomOrder, from, orders)
    IN [Join |-> done.join,
        pos |-> IF done.err # "nil" \/ done.join = req.Join THEN from ELSE to]

\* TypingStreamProvider.IncrementalSync(ctx, snapshot, req, from, to): the
\* response's joined rooms after the call and the position returned
TypingStreamProvider_IncrementalSync(req, from, to, roomOrder, orders) ==
    LET done == SyncRooms(req, req.Join, roomOrder, from, orders)
    IN [Join |-> done.join,
        pos |-> IF done.err # "nil" THEN from ELSE to]

\* CompleteSync starting at the latest position
TypingStreamProvider_CompleteSyncFromLatest(req, latestPosition, roomOrder, orders) ==
    TypingStreamProvider_IncrementalSync(req, latestPosition, latestPosition, roomOrder,
                                         orders)

\* TypingStreamProvider.CompleteSync(ctx, snapshot, req)
TypingStreamProvider_CompleteSync(req, latestPosition, roomOrder, orders) ==
    TypingStreamProvider_IncrementalSync(req, 0, latestPosition, roomOrder, orders)

\* the responses a request can carry into a provider: no joined room yet, or
\* one joined room that another provider has put an event into
BaseJoins ==
    {<<>>, [r \in {"!r:a"} |-> [Ephemeral |-> <<[Type |-> "m.receipt",
                                                 Content |-> [user_ids |-> <<>>]]>>]]}

SyncRequests ==
    {[Rooms |-> memberships, IgnoredUsers |-> ignored, Join |-> join] :
        memberships \in [RoomIDs -> Memberships],
        ignored \in {{}, {"@bob:a"}},
        join \in BaseJoins}

\* the iteration orders of req.Rooms
RoomOrders == Orders(RoomIDs)

\* the iteration orders of the rooms' user sets
AllOrders == UNION {Orders(U) : U \in SUBSET TypingUsers}
UserOrders == {o \in [RoomIDs -> AllOrders] :
                  \A r \in RoomIDs : ToSet(o[r]) = typingData[r].userSet}

\* the joined rooms of the request that the cache has an update for after from
UpdatedAfter(req, from) ==
    {r \in RoomIDs : req.Rooms[r] = "join" /\ typingData[r].syncPosition > from}

\* a request handler calls IncrementalSync
IncrementalSync(req, from, to, roomOrder, orders) ==
    /\ typingCall.op = "none"
    /\ typingCall' = [op |-> "IncrementalSync", req |-> req, from |-> from, to |-> to,
                      updated |-> UpdatedAfter(req, from),
                      latest |-> latestSyncPosition,
                      positions |-> [r \in RoomIDs |-> typingData[r].syncPosition],
                      ret |-> TypingStreamProvider_IncrementalSync(req, from, to, roomOrder,
                                                                   orders)]
    /\ UNCHANGED <<typingData, latestSyncPosition>>

\* a request handler calls CompleteSync; the provider's latest position is
\* the cache's
CompleteSync(req, roomOrder, orders) ==
    /\ typingCall.op = "none"
    /\ typingCall' = [op |-> "CompleteSync", req |-> req, from |-> 0,
                      to |-> latestSyncPosition,
                      updated |-> UpdatedAfter(req, 0),
                      latest |-> latestSyncPosition,
                      positions |-> [r \in RoomIDs |-> typingData[r].syncPosition],
                      ret |-> TypingStreamProvider_CompleteSync(req, latestSyncPosition,
                                                                roomOrder, orders)]
    /\ UNCHANGED <<typingData, latestSyncPosition>>

\* a request handler calls IncrementalSync(P1, P3) on a request, and another
\* calls IncrementalSync(P1, P2) and then IncrementalSync(P2, P3) on the same
\* request and the same cache
SplitSync(req, P1, P2, P3, roomOrder, orders1, orders2, orders3) ==
    /\ typingCall.op = "none"
    /\ LET whole == TypingStreamProvider_IncrementalSync(req, P1, P3, roomOrder, orders1)
           first == TypingStreamProvider_IncrementalSync(req, P1, P2, roomOrder, orders2)
           second == TypingStreamProvider_IncrementalSync(
                         [req EXCEPT !.Join = first.Join], P2, P3, roomOrder, orders3)
       IN typingCall' = [op |-> "SplitSync", req |-> req,
                         P1 |-> P1, P2 |-> P2, P3 |-> P3,
                         positions |-> [r \in RoomIDs |-> typingData[r].syncPosition],
                         whole |-> whole, first |-> first, second |-> second]
    /\ UNCHANGED <<typingData, latestSyncPosition>>

NextTyping ==
    \/ \E userID \in TypingUsers, roomID \in RoomIDs :
          /\ AddTypingUser(userID, roomID)
          /\ UNCHANGED <<streamVars, topoVars, consumerVars, updaterVars, snapVars,
                         eventVars, keyVars, moreVars>>
    \/ \E userID \in TypingUsers, roomID \in RoomIDs :
          /\ RemoveUser(userID, roomID)
          /\ UNCHANGED <<streamVars, topoVars, consumerVars, updaterVars, snapVars,
                         eventVars, keyVars, moreVars>>
    \/ \E orders \in UserOrders, from \in 0..MaxTypingPos, roomOrder \in RoomOrders :
          \E to \in from..MaxTypingPos, req \in SyncRequests :
             /\ IncrementalSync(req, from, to, roomOrder, orders)
             /\ UNCHANGED <<streamVars, topoVars, consumerVars, updaterVars, snapVars,
                            eventVars, keyVars, moreVars>>
    \/ \E orders \in UserOrders, roomOrder \in RoomOrders, req \in SyncRequests :
          /\ CompleteSync(req, roomOrder, orders)
          /\ UNCHANGED <<streamVars, topoVars, consumerVars, updaterVars, snapVars,
                         eventVars, keyVars, moreVars>>

SpecTyping == Init /\ [][NextTyping]_vars

\* the typing cache with sync calls over a range and over its two halves
NextTypingSplit ==
    \/ \E userID \in TypingUsers, roomID \in RoomIDs :
          /\ AddTypingUser(userID, roomID)
          /\ UNCHANGED <<streamVars, topoVars, consumerVars, updaterVars, snapVars,
                         eventVars, keyVars, moreVars>>
    \/ \E userID \in TypingUsers, roomID \in RoomIDs :
          /\ RemoveUser(userID, roomID)
          /\ UNCHANGED <<streamVars, topoVars, consumerVars, updaterVars, snapVars,
                         eventVars, keyVars, moreVars>>
    \/ \E orders1 \in UserOrders, orders2 \in UserOrders, orders3 \in UserOrders :
          \E P1 \in 0..MaxTypingPos, roomOrder \in RoomOrders, req \in SyncRequests :
             \E P2 \in (P1 + 1)..MaxTypingPos :
                \E P3 \in (P2 + 1)..MaxTypingPos :
                   /\ SplitSync(req, P1, P2, P3, roomOrder, orders1, orders2, orders3)
                   /\ UNCHANGED <<streamVars, topoVars, consumerVars, updaterVars, snapVars,
                                  eventVars, keyVars, moreVars>>

SpecTypingSplit == Init /\ [][NextTypingSplit]_vars

\* the joined rooms of the call's request that the cache had an update for
\* after the call's from, when the call was made
UpdatedJoinedRooms == typingCall.updated

\* C20: TypingStreamProvider.IncrementalSync(from, to) returns the position
\* `to` both when it added typing events to the response and when no joined
\* room had a typing update after `from`; in the second case the response is
\* left as it was.
C20_IncrementalSyncReturnsTo ==
    typingCall.op = "IncrementalSync" =>
        /\ typingCall.ret.pos = typingCall.to
        /\ UpdatedJoinedRooms = {} => typingCall.ret.Join = typingCall.req.Join
        /\ UpdatedJoinedRooms # {} => typingCall.ret.Join # typingCall.req.Join

\* C20 happens: a call over a real range found no update in a joined room of
\* a request that has one, though the cache has changed
C20_Witness ==
    /\ typingCall.op = "IncrementalSync"
    /\ typingCall.from < typingCall.to
    /\ typingCall.from > 0
    /\ typingCall.latest > typingCall.from
    /\ \E r \in RoomIDs : typingCall.req.Rooms[r] = "join"
    /\ UpdatedJoinedRooms = {}
    /\ typingCall.ret.Join = typingCall.req.Join
    /\ typingCall.ret.pos = typingCall.to

(***************************************************************************)
(* The consumers and their acknowledgements: claims C17 to C19.            *)
(***************************************************************************)
\* the account-data row of the message's (user, room, type) carries position p
RowOfMessageAt(m, p) ==
    \E r \in accountData :
        /\ r.user_id = m.userID
        /\ r.room_id = m.RoomID
        /\ r.type = m.Type
        /\ r.id = p

\* C17: in the account-data consumer onMessage returns true for a well-formed
\* message only after UpsertAccountData has succeeded and the stream provider
\* has been advanced to the returned position; if processing stops at an
\* earlier point, or the handler returns false, the message stays at the head
\* of the topic, and handling it again ends with one account-data row stored
\* for it and the stream advanced.
C17_AckOnlyAfterStoreAndAdvance ==
    /\ (consCall.op = "onMessage" /\ consCall.msg.parses /\ consCall.ack) =>
          /\ consCall.err = "nil"
          /\ RowOfMessageAt(consCall.msg, consCall.streamPos)
          /\ adStream = consCall.streamPos
    /\ (consCall.op = "onMessage stopped" \/ (consCall.op = "onMessage" /\ ~consCall.ack)) =>
          /\ msgQueue # <<>>
          /\ Head(msgQueue) = consCall.msg
    /\ \A r1, r2 \in accountData :
          (r1.user_id = r2.user_id /\ r1.room_id = r2.room_id /\ r1.type = r2.type)
              => r1 = r2

\* C17 happens: the only message published was stored once by a handler that
\* stopped before it returned, was delivered again, stored again and
\* acknowledged
C17_Witness ==
    /\ published = 1
    /\ consCall.op = "onMessage"
    /\ consCall.msg.parses
    /\ consCall.ack
    /\ streamID["accountdata"] = 2
    /\ msgQueue = <<>>

KeyChangeOps == {"OutputKeyChangeEventConsumer.onMessage", "KeyChangeConsumer.onMessage"}

\* C18: when a storage or internal-API call made while handling a well-formed
\* message fails (UpsertAccountData in the account-data consumer,
\* QuerySharedUsers in the sync key-change consumer, QueryRoomsForUser,
\* GetJoinedHostsForRooms or SendEDU in the federation key-change consumer),
\* onMessage returns false, so the message is not acknowledged.
C18_FailedCallIsNotAcknowledged ==
    /\ (consCall.op = "onMessage" /\ consCall.msg.parses /\ consCall.err # "nil")
          => ~consCall.ack
    /\ (consCall.op \in KeyChangeOps /\ consCall.msg.parses
           /\ consCall.failed \in {"QuerySharedUsers", "QueryRoomsForUser",
                                   "GetJoinedHostsForRooms", "SendEDU"})
          => ~consCall.ack

\* C19: a message whose payload cannot be parsed is acknowledged and dropped
\* by the account-data consumer and by both key-change consumers, without
\* advancing any stream, notifying any waiter or queueing any EDU.
C19_UnparsedMessageIsDropped ==
    [][(consCall'.op \in KeyChangeOps \cup {"onMessage"}
          /\ ~consCall'.msg.parses
          /\ published' = published)
       => /\ consCall'.ack
          /\ UNCHANGED <<streamVars, accountData, ignores, adStream, notifierPos, notified,
                         keyVars, moreVars>>
          /\ consCall'.op = "onMessage" =>
                (msgQueue # <<>> => msgQueue' = Tail(msgQueue))]_vars

\* C19 happens: the account-data consumer dropped a payload that does not
\* parse from the head of a topic that holds another message, after both
\* key-change consumers had done work for well-formed messages
C19_Witness ==
    /\ consCall.op = "onMessage"
    /\ ~consCall.msg.parses
    /\ consCall.ack
    /\ Len(msgQueue) = 1
    /\ deviceListStream > 0
    /\ queuedEDUs # {}

(***************************************************************************)
(* The typing stream provider: claims C21 to C23.                          *)
(***************************************************************************)
\* the events of room r that `after` holds and `before` does not
EventsAdded(before, after, r) ==
    LET old == IF r \in DOMAIN before THEN before[r].Ephemeral ELSE <<>>
        new == IF r \in DOMAIN after THEN after[r].Ephemeral ELSE <<>>
    IN {new[i] : i \in (Len(old) + 1)..Len(new)}

\* the changes a call made to the response: the rooms it put a typing event
\* into, each with the users the event names
Changes(before, after) ==
    UNION {{<<r, ToSet(ev.Content.user_ids)>> : ev \in EventsAdded(before, after, r)} :
              r \in RoomIDs}

\* C21: TypingStreamProvider.IncrementalSync(from, to) puts into the response
\* only typing updates whose position p satisfies from < p <= to; an update
\* made after `to` is not in a response that returns the position `to`.
C21_OnlyUpdatesUpToTo ==
    typingCall.op = "IncrementalSync" =>
        \A r \in RoomIDs :
            EventsAdded(typingCall.req.Join, typingCall.ret.Join, r) # {} =>
                /\ typingCall.from < typingCall.positions[r]
                /\ typingCall.positions[r] <= typingCall.to

\* C22: for positions P1 < P2 < P3, the same cache and the same request, the
\* set of changes of IncrementalSync(P1, P3) is the union of the changes of
\* IncrementalSync(P1, P2) and of IncrementalSync(P2, P3) made after it, and
\* both ways end with the position P3.
C22_SplitRangeSameChanges ==
    typingCall.op = "SplitSync" =>
        /\ Changes(typingCall.req.Join, typingCall.whole.Join)
              = Changes(typingCall.req.Join, typingCall.first.Join)
                   \cup Changes(typingCall.first.Join, typingCall.second.Join)
        /\ typingCall.whole.pos = typingCall.P3
        /\ typingCall.second.pos = typingCall.P3

\* C22 happens: one joined room changed between P1 and P2 and the other
\* between P2 and P3, and both halves of the split range put changes into the
\* response
C22_Witness ==
    /\ typingCall.op = "SplitSync"
    /\ \A r \in RoomIDs : typingCall.req.Rooms[r] = "join"
    /\ \E r1, r2 \in RoomIDs :
          /\ typingCall.P1 < typingCall.positions[r1]
          /\ typingCall.positions[r1] <= typingCall.P2
          /\ typingCall.P2 < typingCall.positions[r2]
          /\ typingCall.positions[r2] <= typingCall.P3
    /\ Changes(typingCall.req.Join, typingCall.first.Join) # {}
    /\ Changes(typingCall.first.Join, typingCall.second.Join) # {}

\* C23: TypingStreamProvider.CompleteSync gives the response and the position
\* that IncrementalSync gives from position 0 to the latest position.
C23_CompleteSyncIsIncrementalFromZero ==
    typingCall.op = "CompleteSync" =>
        /\ typingCall.to = latestSyncPosition
        /\ \E roomOrder \in RoomOrders, orders \in UserOrders :
              typingCall.ret = TypingStreamProvider_IncrementalSync(
                                   typingCall.req, 0, latestSyncPosition, roomOrder, orders)

\* C23 happens: a full sync of a request with a joined room where somebody is
\* typing, made after the cache changed more than once
C23_Witness ==
    /\ typingCall.op = "CompleteSync"
    /\ latestSyncPosition > 1
    /\ \E r \in RoomIDs :
          /\ typingCall.req.Rooms[r] = "join"
          /\ typingData[r].userSet # {}
          /\ EventsAdded(typingCall.req.Join, typingCall.ret.Join, r) # {}

(***************************************************************************)
(* The consumers of the sync API and their streams: claim C24.             *)
(***************************************************************************)
\* the step is a call of the handler named op
HandlerStep(op) == consCall'.op = op /\ published' = published

\* the components of a token that are set
SetComponents(token) == {c \in TokenComponents : token[c] # 0}

\* C24: a key-change message advances only the device-list stream provider
\* and notifies with a token whose only set component is DeviceListPosition;
\* an account-data message advances only the account-data stream provider and
\* the account-data position of the notifier. The position of every other
\* stream stays as it was.
C24_OnlyOwnStreamAdvances ==
    [][/\ HandlerStep("OutputKeyChangeEventConsumer.onMessage") =>
            /\ UNCHANGED <<streamVars, adStream, notifierPos, notified, accountData,
                           typingVars, queuedEDUs, moreVars>>
            /\ consCall'.notify # {} => SetComponents(consCall'.token) = {"DeviceListPosition"}
            /\ consCall'.notify = {} => UNCHANGED keyVars
       /\ HandlerStep("onMessage") =>
            /\ UNCHANGED <<keyVars, typingVars>>
            /\ \A stream \in StreamNames \ {"accountdata"} :
                  streamID'[stream] = streamID[stream]
            /\ \A n \in notified' \ notified : n.pos = consCall'.streamPos]_vars

\* C24 happens: a key change was notified after the account-data stream had
\* advanced, and the two streams stand at different positions
C24_Witness ==
    /\ consCall.op = "OutputKeyChangeEventConsumer.onMessage"
    /\ consCall.notify # {}
    /\ deviceListStream = 1
    /\ keyNotifierPos = 1
    /\ adStream = 2
    /\ notifierPos = 2

(***************************************************************************)
(* RoomUpdater and the rooms it writes: claim C25.                         *)
(***************************************************************************)
\* C25: a RoomUpdater changes the stored latest events, last-sent event and
\* current snapshot of only the room it was constructed for; the rows of
\* every other room stay as they were through all of its operations.
C25_UpdaterWritesOwnRoomOnly ==
    [][\A r \in RoomNIDs :
          rooms'[r] # rooms[r] =>
             /\ updCall'.op \in {"SetLatestEvents", "Commit"}
             /\ updaters[updCall'.u].roomInfo \in {r, NilRoomInfo}]_vars

(***************************************************************************)
(* The topology index: claims C26 and C27.                                 *)
(***************************************************************************)
\* token a comes strictly before token b in the order of the last query
TokenBefore(a, b) ==
    IF topoCall.chronologicalOrder THEN TokenLess(a, b) ELSE TokenLess(b, a)

RowToken(r) == TopologyToken(r.topological_position, r.stream_position)

\* the result of the last query is the first `limit` rows, in the query's
\* order, of the rows its range selects, with the tokens of the first and the
\* last of them
FirstLimitOfMatchingRows ==
    /\ Len(topoCall.eventIDs) =
          IF Cardinality(MatchingRows) < topoCall.limit
          THEN Cardinality(MatchingRows) ELSE topoCall.limit
    /\ \A i \in 1..Len(topoCall.eventIDs) :
          \E r \in MatchingRows :
             /\ r.event_id = topoCall.eventIDs[i]
             /\ RowToken(r) = topoCall.tokens[i]
    /\ \A i, j \in 1..Len(topoCall.eventIDs) :
          i < j => TokenBefore(topoCall.tokens[i], topoCall.tokens[j])
    /\ \A r \in MatchingRows :
          (\A i \in 1..Len(topoCall.eventIDs) : r.event_id # topoCall.eventIDs[i]) =>
             \A i \in 1..Len(topoCall.eventIDs) : TokenBefore(topoCall.tokens[i], RowToken(r))
    /\ Len(topoCall.eventIDs) > 0 =>
          /\ topoCall.start = topoCall.tokens[1]
          /\ topoCall.end = topoCall.tokens[Len(topoCall.tokens)]

\* no returned event belongs to another room
NoEventOfOtherRoom ==
    \A i \in 1..Len(topoCall.eventIDs) : EventRoomID(topoCall.eventIDs[i]) = topoCall.room

\* C26 as stated: the result is the first `limit` elements, in the requested
\* order, of the events of the room with minDepth < depth < maxDepth or at
\* depth = maxDepth within the stream bound, and events at depth = minDepth
\* and events of other rooms are never returned.
C26_RangeAsStated ==
    IsSelect =>
        /\ FirstLimitOfMatchingRows
        /\ NoEventOfOtherRoom
        /\ \A i \in 1..Len(topoCall.tokens) : topoCall.tokens[i].Depth # topoCall.minDepth

\* C26: SelectEventIDsInRange returns the first `limit` elements, in the
\* requested order, of the events of the room with minDepth < depth < maxDepth
\* or at depth = maxDepth within the stream bound, with the tokens of the
\* first and the last returned event; events of other rooms are never
\* returned, and events at depth = minDepth are not returned when minDepth is
\* below maxDepth.
C26_RangeIsFirstLimitOfMatch ==
    IsSelect =>
        /\ FirstLimitOfMatchingRows
        /\ NoEventOfOtherRoom
        /\ topoCall.minDepth < topoCall.maxDepth =>
              \A i \in 1..Len(topoCall.tokens) :
                 topoCall.tokens[i].Depth # topoCall.minDepth

\* C26 happens: a descending query cut by its limit, over a room that has an
\* event at minDepth and one at maxDepth above the stream bound, while the
\* other room has an event inside the range
C26_Witness ==
    /\ IsSelect
    /\ ~topoCall.chronologicalOrder
    /\ topoCall.minDepth < topoCall.maxDepth
    /\ Cardinality(MatchingRows) > topoCall.limit
    /\ \E r \in topology :
          r.room_id = topoCall.room /\ r.topological_position = topoCall.minDepth
    /\ \E r \in topology :
          /\ r.room_id = topoCall.room
          /\ r.topological_position = topoCall.maxDepth
          /\ r.stream_position > topoCall.maxStreamPos
    /\ \E r \in topology :
          /\ r.room_id # topoCall.room
          /\ r.topological_position > topoCall.minDepth
          /\ r.topological_position < topoCall.maxDepth

IsConversion == topoCall.op = "SelectStreamToTopologicalPosition"

\* the topological positions of the room's events on the asked side of the
\* stream position
PositionsOnSide ==
    {r.topological_position :
        r \in {x \in topology :
                  /\ x.room_id = topoCall.room
                  /\ IF topoCall.backwardOrdering
                     THEN x.stream_position <= topoCall.streamPos
                     ELSE x.stream_position >= topoCall.streamPos}}

\* C27: SelectStreamToTopologicalPosition(room, s, backward = true) returns
\* the greatest topological position among the room's events with stream
\* position <= s, and with backward = false the smallest among those with
\* stream position >= s; when the room has no such event it returns the
\* no-rows error.
C27_ClosestTopologicalPosition ==
    IsConversion =>
        IF PositionsOnSide = {}
        THEN topoCall.err = "sql.ErrNoRows"
        ELSE /\ topoCall.err = "nil"
             /\ topoCall.topoPos \in PositionsOnSide
             /\ \A p \in PositionsOnSide :
                   IF topoCall.backwardOrdering
                   THEN p <= topoCall.topoPos
                   ELSE p >= topoCall.topoPos

\* C27 happens: a backward conversion that has two depths to choose from and
\* leaves out an event of the room with a later stream position
C27_Witness ==
    /\ IsConversion
    /\ topoCall.backwardOrdering
    /\ Cardinality(PositionsOnSide) > 1
    /\ topoCall.topoPos > 0
    /\ \E r \in topology :
          r.room_id = topoCall.room /\ r.stream_position > topoCall.streamPos

(***************************************************************************)
(* The state snapshot table: claims C28 and C29.                           *)
(***************************************************************************)
StrictlyAscending(list) == \A i \in 1..(Len(list) - 1) : list[i] < list[i + 1]

\* C28: in every reachable state the block-NID list stored for each state
\* snapshot is strictly ascending, whatever order and repetitions the caller
\* of InsertState supplied, and a nil input is stored as the empty list.
C28_StoredListsStrictlyAscending ==
    /\ \A r \in stateSnapshots :
          /\ r.state_block_nids.json = "array"
          /\ StrictlyAscending(UnmarshalJSON(r.state_block_nids))
    /\ (snapCall.op = "InsertState" /\ snapCall.wasNil) =>
          \E r \in stateSnapshots :
             /\ r.state_snapshot_nid = snapCall.stateNID
             /\ r.state_block_nids = MarshalJSON(<<>>)

\* C28 happens: a nil list was stored after a list that came out of order and
\* with a repeated entry
C28_Witness ==
    /\ snapCall.op = "InsertState"
    /\ snapCall.wasNil
    /\ \E a \in insertedStates : a.blocks = {1, 2}
    /\ \E r \in stateSnapshots : UnmarshalJSON(r.state_block_nids) = <<1, 2>>
    /\ ~(\E r \in snapCall.before : r.state_snapshot_nid = snapCall.stateNID)

\* C29: the room NID recorded for a state snapshot never changes after the
\* snapshot is created, also when another room calls InsertState with the
\* same set of block NIDs, so the block NIDs selected for a room
\* (selectStateBlockNIDsForRoomNID) change only through that room's own
\* inserts.
C29_SnapshotKeepsItsRoom ==
    [][/\ \A old \in stateSnapshots :
             \A new \in stateSnapshots' :
                new.state_snapshot_nid = old.state_snapshot_nid =>
                   new.room_nid = old.room_nid
       /\ \A roomNID \in RoomNIDs :
             selectStateBlockNIDsForRoomNID(stateSnapshots', roomNID)
                   # selectStateBlockNIDsForRoomNID(stateSnapshots, roomNID)
                => (snapCall'.op = "InsertState" /\ snapCall'.roomNID = roomNID)]_vars

(***************************************************************************)
(* The key-change consumers and absent payloads: claim C30.                *)
(***************************************************************************)
\* the message carries the payload of the other type only, or no payload
PayloadAbsentForType(m) ==
    \/ m.DeviceKeys = "nil" /\ m.OutputCrossSigningKeyUpdate = "nil"
    \/ /\ m.Type = "TypeCrossSigningUpdate"
       /\ m.OutputCrossSigningKeyUpdate = "nil"
    \/ /\ m.Type = "TypeDeviceKeyUpdate"
       /\ m.DeviceKeys = "nil"

\* C30: for every message that parses as a DeviceMessage, onMessage of the
\* sync and of the federation key-change consumer returns a decision without
\* dereferencing an absent payload; a message with neither payload, or with
\* the payload of the other type only, is acknowledged.
C30_AbsentPayloadIsAcknowledged ==
    (consCall.op \in KeyChangeOps /\ consCall.msg.parses) =>
        /\ consCall.failed # "nil pointer dereference"
        /\ PayloadAbsentForType(consCall.msg) => consCall.ack

(***************************************************************************)
(* The RoomUpdater of a room that does not exist: claim C31.               *)
(***************************************************************************)
RoomInfoMethods == {"RoomVersion", "Events", "MembershipUpdater", "SetLatestEvents"}

\* C31: every method of a RoomUpdater constructed with a nil RoomInfo returns
\* a value or an error without dereferencing the missing RoomInfo: Events
\* returns ErrorInvalidRoomInfo and reads nothing, and RoomVersion,
\* MembershipUpdater and SetLatestEvents do not fault.
C31_NilRoomInfoMethodsDoNotFault ==
    (/\ updCall.op \in RoomInfoMethods
     /\ updaters[updCall.u].roomInfo = NilRoomInfo) =>
        /\ updCall.err # NilDereference
        /\ updCall.op = "Events" =>
              (updCall.err = "ErrorInvalidRoomInfo" /\ ~updCall.read)

(***************************************************************************)
(* NewRoomUpdater when a load fails: claim C32.                            *)
(***************************************************************************)
\* C32: when NewRoomUpdater fails to load the room's latest events, their
\* state references or the last-sent event ID, it rolls back the transaction
\* it was given (if not nil), returns the error and no updater, and leaves no
\* row lock held.
C32_FailedLoadRollsBack ==
    (updCall.op = "NewRoomUpdater" /\ updCall.err = "error") =>
        /\ updaters[updCall.u] = UnusedUpdater
        /\ \A r \in RoomNIDs : rowLock[r] # updCall.u
        /\ \A r \in RoomNIDs : pending[updCall.u][r] = NoRow

\* C32 happens: a load failed inside a transaction while the other updater
\* held the lock of another room's row, which it keeps
C32_Witness ==
    /\ updCall.op = "NewRoomUpdater"
    /\ updCall.err = "error"
    /\ updCall.txn
    /\ \E r \in RoomNIDs :
          /\ r # updCall.roomInfo
          /\ rowLock[r] \notin {NoUpdater, updCall.u}

(***************************************************************************)
(* The invites table: claims C33 and C34.                                  *)
(***************************************************************************)
\* C33: an UpdateInviteRetired(room, target) that returns no error returns
\* exactly the IDs of the invites that were active (not retired) for that
\* (room, target) pair before the call and marks all of them retired, so
\* that SelectInviteActiveForUserInRoom(target, room) returns nothing right
\* after it; the invites of every other (room, target) pair are unchanged.
C33_RetiresExactlyTheActiveInvites ==
    [][(inviteCall'.op = "UpdateInviteRetired" /\ inviteCall'.err = "nil") =>
          LET roomNID == inviteCall'.roomNID
              targetNID == inviteCall'.targetUserNID
              active == ActiveInvites(invites, roomNID, targetNID)
          IN /\ ToSet(inviteCall'.eventIDs) = {row.invite_event_id : row \in active}
             /\ Len(inviteCall'.eventIDs) = Cardinality(active)
             /\ \A row \in active : [row EXCEPT !.retired = TRUE] \in invites'
             /\ selectInviteActiveForUserInRoomSQL(invites', targetNID, roomNID) = {}
             /\ \A row \in invites \ active : row \in invites'
             /\ Cardinality(invites') = Cardinality(invites)]_vars

\* C33 happens: a call retired two active invites of one pair while an active
\* invite of another pair and an invite retired earlier were stored
C33_Witness ==
    /\ inviteCall.op = "UpdateInviteRetired"
    /\ inviteCall.err = "nil"
    /\ Len(inviteCall.eventIDs) = 2
    /\ \E row \in invites :
          /\ ~row.retired
          /\ <<row.room_nid, row.target_nid>> # <<inviteCall.roomNID, inviteCall.targetUserNID>>

StoredInviteIDs(rows) == {row.invite_event_id : row \in rows}

\* C34: InsertInviteEvent returns true exactly when the invite event ID was
\* not stored before; re-inserting a stored invite event ID returns false and
\* changes nothing, so an invite that has been retired stays retired in every
\* later state and never becomes active again.
C34_InsertOnceRetiredForGood ==
    [][/\ (inviteCall'.op = "InsertInviteEvent" /\ inviteCall'.err = "nil") =>
             /\ inviteCall'.ret = (inviteCall'.inviteEventID \notin StoredInviteIDs(invites))
             /\ ~inviteCall'.ret => invites' = invites
       /\ \A row \in invites : row.retired => row \in invites'
       /\ \A row \in invites' :
             ~row.retired => \A old \in invites :
                                old.invite_event_id = row.invite_event_id => ~old.retired]_vars

\* C34 happens: the event ID of a retired invite was inserted again, for
\* another room, and the call returned false
C34_Witness ==
    /\ inviteCall.op = "InsertInviteEvent"
    /\ inviteCall.err = "nil"
    /\ ~inviteCall.ret
    /\ \E row \in invites :
          /\ row.invite_event_id = inviteCall.inviteEventID
          /\ row.retired
          /\ row.room_nid # inviteCall.roomNID

(***************************************************************************)
(* The key changes table: claim C35.                                       *)
(***************************************************************************)
\* the change ID the latest successful InsertKeyChange of the user returned
LatestChangeOf(userID) ==
    LET calls == {i \in DOMAIN keyChangeReturned : keyChangeReturned[i].userID = userID}
    IN keyChangeReturned[CHOOSE i \in calls : \A j \in calls : j <= i].changeID

\* C35: after any sequence of InsertKeyChange calls the key-changes table
\* holds at most one row per user, and each InsertKeyChange returns a change
\* ID strictly greater than every change ID returned by an earlier call for
\* any user, so a user's row always carries the ID of that user's latest
\* change.
C35_OneRowPerUserLatestChange ==
    /\ \A a, b \in keyChanges : a.user_id = b.user_id => a = b
    /\ \A i, j \in DOMAIN keyChangeReturned :
          i < j => keyChangeReturned[i].changeID < keyChangeReturned[j].changeID
    /\ \A i \in DOMAIN keyChangeReturned :
          [change_id |-> LatestChangeOf(keyChangeReturned[i].userID),
           user_id |-> keyChangeReturned[i].userID] \in keyChanges
    /\ \A row \in keyChanges :
          \E i \in DOMAIN keyChangeReturned : keyChangeReturned[i].userID = row.user_id

\* C35 happens: a user whose row held the greatest change ID changed keys
\* again after another user had a row
C35_Witness ==
    /\ Len(keyChangeReturned) >= 3
    /\ Cardinality(keyChanges) = 2
    /\ \E i \in DOMAIN keyChangeReturned :
          /\ i + 1 \in DOMAIN keyChangeReturned
          /\ keyChangeReturned[i].userID = keyChangeReturned[i + 1].userID

(***************************************************************************)
(* The federation key-change consumer and remote users: claim C36.         *)
(***************************************************************************)
\* the message's user ID has a server name, and it is not a local one
AboutRemoteUser(m) ==
    /\ SplitID("@", m.UserID).err = "nil"
    /\ ~isLocalServerName(SplitID("@", m.UserID).domain)

PastTheCache(r) ==
    \/ clientReq[r].pc = "sending"
    \/ /\ clientReq[r].pc = "returned"
       /\ clientReq[r].code = 200
       /\ ~clientReq[r].stored

\* C37: for a given (access token, transaction ID, URL), the messages of a
\* client SendToDevice request are handed to the producer at most once over
\* any interleaving of requests with that key: once one request with the key
\* has returned 200, and also while one is still in progress, another request
\* with the same key produces no message and returns the stored 200 response
\* (so no two requests with one key get past the cache).
C37_MessagesHandedAtMostOnce ==
    /\ \A key \in TxnKeys, message \in DeviceMessages : handed[key][message] <= 1
    /\ \A r1, r2 \in ClientRequests :
          (/\ r1 # r2
           /\ PastTheCache(r1)
           /\ PastTheCache(r2)) => clientReq[r1].key # clientReq[r2].key

(***************************************************************************)
(* The producer's SendToDevice and failed publishes: claim C38.            *)
(***************************************************************************)
\* the call got to the loop over the devices and could marshal the message
PublishedToDevices ==
    /\ producerCall.op = "SendToDevice"
    /\ producerCall.reached
    /\ ~producerCall.marshalFails
    /\ producerCall.devices # <<>>

\* C38: the producer's SendToDevice returns a publish error exactly when
\* publishing failed for every target device; if publishing succeeded for at
\* least one device of the expanded device list it returns nil, and a failure
\* for one device does not stop the attempts for the remaining devices.
C38_ErrorOnlyWhenEveryPublishFailed ==
    PublishedToDevices =>
        /\ (producerCall.err = "PublishMsg") =
              (\A i \in DOMAIN producerCall.outcomes : producerCall.outcomes[i] = "error")
        /\ (\E i \in DOMAIN producerCall.outcomes : producerCall.outcomes[i] = "nil") =>
              producerCall.err = "nil"
        /\ producerCall.attempted = producerCall.devices

\* the step in which the SelectAndDeleteOneTimeKey call of c returns a key
ClaimReturnsKey(c) ==
    /\ claims[c].pc = "selected"
    /\ claims'[c] = NoClaim
    /\ otkCall'.keys # {}

\* the key the call of c returns is a stored key of its (user, device,
\* algorithm) that no other one was added before, the step deletes it, and no
\* call has returned it before
OldestKeyDeletedAndNew(c) ==
    LET call == claims[c]
        matching == KeysByAlgorithm(oneTimeKeys, OneTimeKeyUser, call.deviceID, call.algorithm)
    IN /\ otkCall' = ClaimResult(call.txn, {<<call.algorithm, call.keyID>>}, "nil")
       /\ \E row \in matching :
             /\ row.key_id = call.keyID
             /\ \A other \in matching : row.ts_added_secs <= other.ts_added_secs
             /\ oneTimeKeys' = oneTimeKeys \ {row}
       /\ call.keyID \notin otkReturned

\* a call for a (user, device, algorithm) with no stored key returns nothing,
\* no error, and leaves the table alone
NoKeyNothing ==
    \A c \in Claimers, hasTxn \in BOOLEAN, owner \in KeyOwners :
       (/\ KeysByAlgorithm(oneTimeKeys, OneTimeKeyUser, owner[1], owner[2]) = {}
        /\ SelectAndDeleteOneTimeKeySelect(c, hasTxn, owner[1], owner[2], FALSE))
       => /\ otkCall' = ClaimResult(hasTxn, {}, "nil")
          /\ claims'[c] = NoClaim
          /\ oneTimeKeys' = oneTimeKeys

====
